---- MODULE Spec2Model ----
(***************************************************************************)
(* Model of thlocalsync's synchronization core: the Comparator             *)
(* (CompareFiles), the Transfer Orchestrator (PullFile, PushFile,          *)
(* AtomicCopy) and the Backup Store (CreateBackup, RestoreBackup,          *)
(* CleanupOldBackups) for one title.                                       *)
(***************************************************************************)
EXTENDS Integers, Sequences, FiniteSets, TLC

(***************************************************************************)
(* Bounds of the model.                                                    *)
(***************************************************************************)
\* Sizes of the metadata handed to CompareFiles range over 0..MaxSize.
MaxSize == 3
\* Modification times (Unix seconds) of that metadata range over 0..MaxModTime.
MaxModTime == 4
\* Content hashes of that metadata range over 0..MaxHash; 0 is the empty hash.
MaxHash == 2
\* File contents of the file-system model range over 1..NumContents.
NumContents == 2
\* The wall clock of the file-system model runs from StartTime to MaxTime.
MaxTime == 5
\* Number of operations started in one run of the file-system model; a crash
\* and the restart that follows it count as one.
MaxOps == 2
\* Number of process crashes in one run of the file-system model.
MaxCrashes == 1

(***************************************************************************)
(* Program constants.                                                      *)
(***************************************************************************)
TimeDriftTolerance == 3
MaxSizeRatio == 2
EmptySizeRatio == 999

\* The hash GetFileMetadata leaves in Hash when it computes none ("").
NoHash == 0

(***************************************************************************)
(* Comparator                                                              *)
(***************************************************************************)
\* models.FileMetadata without the path.
FileMetadata ==
    [Exists : BOOLEAN, Readable : BOOLEAN, Size : 0..MaxSize,
     ModTime : 0..MaxModTime, Hash : 0..MaxHash]

Abs(x) == IF x < 0 THEN -x ELSE x

TimeDiffSeconds(t1, t2) == t1 - t2

\* The drift check leaving out a difference of exactly the tolerance.
TimeWithinDriftStrict(t1, t2) == Abs(t1 - t2) < TimeDriftTolerance

TimeWithinDrift(t1, t2) == Abs(t1 - t2) <= TimeDriftTolerance

\* The newer-than check taking a difference in either direction.
IsNewerThanEitherWay(t1, t2) ==
    Abs(TimeDiffSeconds(t1, t2)) > TimeDriftTolerance

IsNewerThan(t1, t2) == TimeDiffSeconds(t1, t2) > TimeDriftTolerance

\* The ratio check flagging a ratio of exactly MaxSizeRatio too.
SizeRatioExceedsAtThreshold(larger, smaller) ==
    IF smaller > 0 THEN larger >= MaxSizeRatio * smaller
    ELSE EmptySizeRatio >= MaxSizeRatio

\* float64(larger)/float64(smaller) > MaxSizeRatio, with the sentinel ratio
\* the code uses when the smaller file is empty.  For the integers a file
\* size can take, l/s > 2.0 exactly when l > 2*s.
SizeRatioExceeds(larger, smaller) ==
    IF smaller > 0 THEN larger > MaxSizeRatio * smaller
    ELSE EmptySizeRatio > MaxSizeRatio

\* models.ComparisonResult; Reason is the message without its numbers.
Result(rec, reason, hashMatch, sizeDiff, timeDiff) ==
    [Recommendation |-> rec, Reason |-> reason, HashMatch |-> hashMatch,
     SizeDiff |-> sizeDiff, TimeDiff |-> timeDiff]

\* The size preference naming the smaller file.
SizePreferenceReversed(local, remote) ==
    IF local.Size - remote.Size > 0 THEN "remote"
    ELSE IF local.Size - remote.Size < 0 THEN "local"
    ELSE "equal"

\* sizePreference of CompareFiles: "local", "remote" or "equal".
SizePreference(local, remote) ==
    IF local.Size - remote.Size > 0 THEN "local"
    ELSE IF local.Size - remote.Size < 0 THEN "remote"
    ELSE "equal"

\* The time preference without the drift tolerance.
TimePreferenceNoDrift(local, remote) ==
    IF local.ModTime = remote.ModTime THEN "equal"
    ELSE IF local.ModTime > remote.ModTime THEN "local"
    ELSE "remote"

\* timePreference of CompareFiles: "local", "remote" or "equal".
TimePreference(local, remote) ==
    IF TimeWithinDrift(local.ModTime, remote.ModTime) THEN "equal"
    ELSE IF IsNewerThan(local.ModTime, remote.ModTime) THEN "local"
    ELSE "remote"

\* The hash check of CompareFiles dropped when the sizes differ.
HashesEqualSameSizeOnly(local, remote) ==
    local.Hash = remote.Hash /\ local.Size = remote.Size

\* The hash comparison of CompareFiles.
HashesEqual(local, remote) == local.Hash = remote.Hash

\* CompareFiles, evidence-combination form.
CompareFiles(local, remote) ==
    LET sizeDiff == local.Size - remote.Size
        timeDiff == TimeDiffSeconds(local.ModTime, remote.ModTime)
        sizePreference == SizePreference(local, remote)
        timePreference == TimePreference(local, remote)
    IN
    IF ~local.Exists /\ ~remote.Exists
      THEN Result("SKIP", "both files do not exist", FALSE, 0, 0)
    ELSE IF ~local.Exists
      THEN Result("PUSH", "local file does not exist", FALSE, 0, 0)
    ELSE IF ~remote.Exists
      THEN Result("PULL", "remote file does not exist", FALSE, 0, 0)
    ELSE IF ~local.Readable
      THEN Result("SKIP", "local file not readable", FALSE, 0, 0)
    ELSE IF ~remote.Readable
      THEN Result("SKIP", "remote file not readable", FALSE, 0, 0)
    ELSE IF HashesEqual(local, remote)
      THEN Result("SKIP", "files are identical (hash match)", TRUE,
                  sizeDiff, timeDiff)
    ELSE IF sizeDiff > 0 /\ SizeRatioExceeds(local.Size, remote.Size)
      THEN Result("CONFLICT", "local file suspiciously large", FALSE,
                  sizeDiff, timeDiff)
    ELSE IF sizeDiff < 0 /\ SizeRatioExceeds(remote.Size, local.Size)
      THEN Result("CONFLICT", "remote file suspiciously large", FALSE,
                  sizeDiff, timeDiff)
    ELSE IF sizePreference = "equal" /\ timePreference = "equal"
      THEN Result("SKIP", "files appear identical", FALSE, sizeDiff, timeDiff)
    ELSE IF sizePreference = "local" /\ timePreference = "local"
      THEN Result("PULL", "local file is both larger and newer", FALSE,
                  sizeDiff, timeDiff)
    ELSE IF sizePreference = "remote" /\ timePreference = "remote"
      THEN Result("PUSH", "remote file is both larger and newer", FALSE,
                  sizeDiff, timeDiff)
    ELSE IF sizePreference = "equal"
      THEN IF timePreference = "local"
             THEN Result("PULL", "local file is newer", FALSE,
                         sizeDiff, timeDiff)
             ELSE Result("PUSH", "remote file is newer", FALSE,
                         sizeDiff, timeDiff)
    ELSE IF timePreference = "equal"
      THEN IF sizePreference = "local"
             THEN Result("PULL", "local file is larger", FALSE,
                         sizeDiff, timeDiff)
             ELSE Result("PUSH", "remote file is larger", FALSE,
                         sizeDiff, timeDiff)
    ELSE IF sizePreference = "local" /\ timePreference = "remote"
      THEN Result("CONFLICT",
                  "evidence conflict: local is larger but remote is newer",
                  FALSE, sizeDiff, timeDiff)
    ELSE Result("CONFLICT",
                "evidence conflict: remote is larger but local is newer",
                FALSE, sizeDiff, timeDiff)

\* The hash compared before the existence checks.
CompareFilesHashFirst(local, remote) ==
    IF HashesEqual(local, remote)
      THEN Result("SKIP", "files are identical (hash match)", TRUE,
                  local.Size - remote.Size,
                  TimeDiffSeconds(local.ModTime, remote.ModTime))
      ELSE CompareFiles(local, remote)

\* CompareFiles, single-signal form (pkg/sync/compare.go): a size difference
\* decides alone, the modification times only when the sizes are equal.
CompareFilesSingleSignal(local, remote) ==
    LET sizeDiff == local.Size - remote.Size
        timeDiff == TimeDiffSeconds(local.ModTime, remote.ModTime)
    IN
    IF ~local.Exists /\ ~remote.Exists
      THEN Result("SKIP", "both files do not exist", FALSE, 0, 0)
    ELSE IF ~local.Exists
      THEN Result("PUSH", "local file does not exist", FALSE, 0, 0)
    ELSE IF ~remote.Exists
      THEN Result("PULL", "remote file does not exist", FALSE, 0, 0)
    ELSE IF ~local.Readable
      THEN Result("SKIP", "local file not readable", FALSE, 0, 0)
    ELSE IF ~remote.Readable
      THEN Result("SKIP", "remote file not readable", FALSE, 0, 0)
    ELSE IF HashesEqual(local, remote)
      THEN Result("SKIP", "files are identical (hash match)", TRUE,
                  sizeDiff, timeDiff)
    ELSE IF sizeDiff # 0
      THEN IF sizeDiff > 0
             THEN IF SizeRatioExceeds(local.Size, remote.Size)
                    THEN Result("CONFLICT", "local file suspiciously large",
                                FALSE, sizeDiff, timeDiff)
                    ELSE Result("PULL", "local file is larger", FALSE,
                                sizeDiff, timeDiff)
             ELSE IF SizeRatioExceeds(remote.Size, local.Size)
                    THEN Result("CONFLICT", "remote file suspiciously large",
                                FALSE, sizeDiff, timeDiff)
                    ELSE Result("PUSH", "remote file is larger", FALSE,
                                sizeDiff, timeDiff)
    ELSE IF TimeWithinDrift(local.ModTime, remote.ModTime)
      THEN Result("SKIP", "files appear identical", FALSE, sizeDiff, timeDiff)
    ELSE IF IsNewerThan(local.ModTime, remote.ModTime)
      THEN Result("PULL", "local file is newer", FALSE, sizeDiff, timeDiff)
    ELSE Result("PUSH", "remote file is newer", FALSE, sizeDiff, timeDiff)

(***************************************************************************)
(* File system of one title                                                *)
(***************************************************************************)
\* The wall clock at the start of a run.
StartTime == MaxTime - 1

Contents == 1..NumContents

\* A path is <<kind, name, number>>.
Local == <<"local", "", 0>>
Vault == <<"vault", "", 0>>

\* filepath.Base of the local path and of the vault path: both are the
\* title's save file name.
BaseName == "score.dat"

\* <historyDir>/<timestamp>-<base name>
BackupPath(timestamp, base) == <<"hist", base, timestamp>>

HistPaths == {BackupPath(t, BaseName) : t \in StartTime..MaxTime}

\* Seconds at which the backups a history holds from earlier runs were made:
\* either side of the step from one to two digits and of a full minute.
BackupTimes == {9, 10, 59, 60}

EarlierHistPaths == {BackupPath(t, BaseName) : t \in BackupTimes}

\* <vault>/<title>/_history itself, and a directory somebody made inside it.
HistoryDir == <<"dir", "history", 0>>
SubDir == <<"subdir", "history", 0>>

Dirs == {"localdir", "main", "history"}

\* filepath.Dir
Dir(path) ==
    CASE path[1] = "local" -> "localdir"
      [] path[1] = "vault" -> "main"
      [] path[1] = "hist" -> "history"
      [] path[1] = "dir" -> "title"
      [] OTHER -> path[2]

TmpIds == 1..(MaxCrashes + 1)
TmpPath(dir, id) == <<"tmp", dir, id>>
TmpPaths == {TmpPath(d, i) : d \in Dirs, i \in TmpIds}

Paths ==
    {Local, Vault, HistoryDir, SubDir} \cup HistPaths \cup EarlierHistPaths
        \cup TmpPaths

Absent ==
    [exists |-> FALSE, readable |-> FALSE, kind |-> "none", content |-> 0,
     mtime |-> 0]

\* A regular file; kind is "full" for a complete copy of a content, "partial"
\* for a prefix of it and "empty" for a file just created.
File(kind, content, mtime, readable) ==
    [exists |-> TRUE, readable |-> readable, kind |-> kind,
     content |-> content, mtime |-> mtime]

\* A directory.
Directory == File("dir", 0, 0, TRUE)

NoPath == <<"none", "", 0>>

\* Byte size of a file: content c is c bytes long, a prefix of it is shorter.
SizeOf(kind, content) ==
    IF kind = "full" THEN content ELSE content - 1

\* SHA-256 of the bytes: distinct for distinct bytes.
CalculateFileHash(kind, content) ==
    IF kind = "full" THEN content ELSE NumContents + content

\* utils.FileExists
FileExists(f) == <<f.exists, f.exists /\ f.readable>>

\* The metadata reporting every existing file as readable.
GetFileMetadataAllReadable(f) ==
    IF ~f.exists
      THEN [Exists |-> FALSE, Readable |-> FALSE, Size |-> 0, ModTime |-> 0,
            Hash |-> NoHash]
      ELSE [Exists |-> TRUE, Readable |-> TRUE,
            Size |-> SizeOf(f.kind, f.content), ModTime |-> f.mtime,
            Hash |-> CalculateFileHash(f.kind, f.content)]

\* GetFileMetadata without the path; no hash is computed for a file that
\* cannot be read.
GetFileMetadata(f) ==
    IF ~FileExists(f)[1]
      THEN [Exists |-> FALSE, Readable |-> FALSE, Size |-> 0, ModTime |-> 0,
            Hash |-> NoHash]
      ELSE [Exists |-> TRUE, Readable |-> FileExists(f)[2],
            Size |-> SizeOf(f.kind, f.content), ModTime |-> f.mtime,
            Hash |-> IF FileExists(f)[2]
                       THEN CalculateFileHash(f.kind, f.content)
                       ELSE NoHash]

VARIABLES
    fs,         \* the files: Paths -> file record
    now,        \* time.Now(), Unix seconds
    pc,         \* position of the running operation, "idle" when none runs
    op,         \* frame of the running or last operation
    ac,         \* frame of the running or last AtomicCopy call
    nOps,       \* operations started so far
    nCrashes,   \* process crashes so far
    cmpLocal,   \* Comparator check: the local metadata
    cmpRemote,  \* Comparator check: the remote metadata
    cmpOut,     \* Comparator check: the result, NoOut before the call
    cmpForm,    \* Comparator check: the form of CompareFiles that was called
    wr,         \* concurrent AtomicCopy calls: the frame of each writer
    cmd,        \* frame of the running or last pull or push command
    log,        \* the event sink: the records handed to the logger
    store,      \* pull or push command: the files of every title
    arch        \* frame of the running or last archiving call

vars ==
    <<fs, now, pc, op, ac, nOps, nCrashes, cmpLocal, cmpRemote, cmpOut,
      cmpForm, wr, cmd, log, store, arch>>
fsVars == <<fs, now, pc, op, ac, nOps, nCrashes>>
cmpVars == <<cmpLocal, cmpRemote, cmpOut, cmpForm>>
extVars == <<wr, cmd, log, store, arch>>

\* No concurrent writers, no command and no archiving call: the values of
\* these variables where they play no part.
NoWriters == <<>>
NoCmd ==
    [kind |-> "none", status |-> "none", target |-> <<>>, force |-> FALSE,
     titles |-> <<>>, i |-> 0, successCount |-> 0, errorCount |-> 0,
     err |-> "", done |-> <<>>]
NoStore == <<>>
NoArch == [status |-> "none"]

ExtIdle ==
    /\ wr = NoWriters
    /\ cmd = NoCmd
    /\ log = <<>>
    /\ store = NoStore
    /\ arch = NoArch

NoVerdict == Result("none", "", FALSE, 0, 0)
NoOut == NoVerdict

NoOp ==
    [kind |-> "none", status |-> "none", err |-> "", force |-> FALSE,
     oracle |-> "", verdict |-> NoVerdict, metaRead |-> FALSE,
     src |-> NoPath, dest |-> NoPath, pre |-> <<>>, backupPath |-> NoPath,
     needBackup |-> FALSE, backupSrc |-> NoPath, backupErr |-> FALSE,
     copyStarted |-> FALSE, limit |-> 0, backups |-> <<>>,
     details |-> <<>>, after |-> "none"]

NoAc ==
    [status |-> "none", src |-> NoPath, dest |-> NoPath, tmp |-> NoPath,
     before |-> Absent, srcContent |-> 0, ret |-> "", failedAt |-> ""]

NoMeta == GetFileMetadata(Absent)

\* The backups of the history: the files CreateBackup has written.
HistoryOf(f) == {p \in HistPaths \cup EarlierHistPaths : f[p].exists}

\* os.ReadDir(historyDir): everything the directory holds.
ReadDir(f) == {p \in Paths : Dir(p) = "history" /\ f[p].exists}

\* The files a run can start with: none, a readable file of any content,
\* old or recent, or a file that cannot be opened.
InitFiles ==
    {Absent} \cup
    {File("full", c, t, TRUE) : c \in Contents, t \in {0, StartTime}} \cup
    {File("full", 1, StartTime, FALSE)}

Init ==
    /\ \E l \in InitFiles, v \in InitFiles :
         fs = [p \in Paths |-> IF p = Local THEN l
                               ELSE IF p = Vault THEN v
                               ELSE IF p = HistoryDir THEN Directory
                               ELSE Absent]
    /\ now = StartTime
    /\ pc = "idle"
    /\ op = NoOp
    /\ ac = NoAc
    /\ nOps = 0
    /\ nCrashes = 0
    /\ cmpLocal = NoMeta
    /\ cmpRemote = NoMeta
    /\ cmpOut = NoOut
    /\ cmpForm = "none"
    /\ ExtIdle

(***************************************************************************)
(* AtomicCopy                                                              *)
(***************************************************************************)
\* The operation that has just returned after a copy that succeeded: "pull",
\* "push" or "restore"; "none" when the last step was anything else.
JustCopied ==
    IF op.status = "returned" /\ op.err = "" /\ op.copyStarted
      THEN op.kind ELSE "none"

Begin(kind, src, dest) ==
    [NoOp EXCEPT !.kind = kind, !.status = "running", !.src = src,
                 !.dest = dest, !.backupSrc = dest, !.pre = fs,
                 !.after = JustCopied]

Returned(frame, e) == [frame EXCEPT !.status = "returned", !.err = e]

\* The frame of a call AtomicCopy(src, dest); ret names the caller.
NewAc(src, dest, ret) ==
    [status |-> "running", src |-> src, dest |-> dest, tmp |-> NoPath,
     before |-> fs[dest], srcContent |-> fs[src].content, ret |-> ret,
     failedAt |-> ""]

\* A temp file of a fixed name.
FixedTmp(dir) == TmpPath(dir, 1)

\* os.CreateTemp(destDir, ".tmp-*"): a name no file of the directory has.
FreshTmp(dir) ==
    TmpPath(dir, CHOOSE i \in TmpIds :
                   /\ ~fs[TmpPath(dir, i)].exists
                   /\ \A j \in TmpIds : j < i => fs[TmpPath(dir, j)].exists)

\* The copy written straight to the destination instead of the temp file.
CopyTargetDest(tmp, dest) == dest

\* The file io.Copy writes to: tmpFile.
CopyTarget(tmp, dest) == tmp

\* The deferred cleanup leaving the temp file behind.
CleanupSkipped(f) == f

\* The deferred cleanup on error: os.Remove(tmpPath).
CleanupOnError(f) == Absent

\* A failed backup that does not stop the caller.
OnBackupErrorProceed(kind) == "proceed"

\* What PullFile, PushFile and RestoreBackup do when CreateBackup fails.
OnBackupError(kind) == "abort"

\* CreateBackup returned an error to the operation.
BackupFailed(frame, e) ==
    IF OnBackupError(frame.kind) = "abort" \/ frame.kind = "backup"
      THEN /\ op' = Returned([frame EXCEPT !.backupErr = TRUE], e)
           /\ pc' = "idle"
      ELSE /\ op' = [frame EXCEPT !.backupErr = TRUE]
           /\ pc' = "copy"

\* AtomicCopy returns an error at the given step, after the deferred cleanup
\* has run on the files f.
AcError(step, f) ==
    /\ fs' = IF ac.tmp = NoPath THEN f
             ELSE [f EXCEPT ![ac.tmp] = CleanupOnError(f[ac.tmp])]
    /\ ac' = [ac EXCEPT !.status = "failed", !.failedAt = step]
    /\ IF ac.ret = "backup"
         THEN BackupFailed(op, "failed to create backup")
         ELSE /\ op' = Returned(op, "failed to copy file")
              /\ pc' = "idle"

AcOpen ==
    /\ pc = "ac_open"
    /\ \E ok \in BOOLEAN :
         IF ok /\ fs[ac.src].exists /\ fs[ac.src].readable
           THEN /\ pc' = "ac_temp"
                /\ UNCHANGED <<fs, op, ac>>
           ELSE AcError("open", fs)
    /\ UNCHANGED <<now, nOps, nCrashes, cmpVars, extVars>>

AcCreateTemp ==
    /\ pc = "ac_temp"
    /\ \E ok \in BOOLEAN :
         IF ok
           THEN LET tmp == FreshTmp(Dir(ac.dest)) IN
                /\ fs' = [fs EXCEPT ![tmp] =
                            File("empty", ac.srcContent, now, TRUE)]
                /\ ac' = [ac EXCEPT !.tmp = tmp]
                /\ pc' = "ac_copy"
                /\ UNCHANGED op
           ELSE AcError("temp", fs)
    /\ UNCHANGED <<now, nOps, nCrashes, cmpVars, extVars>>

AcCopy ==
    /\ pc = "ac_copy"
    /\ \E ok \in BOOLEAN :
         LET target == CopyTarget(ac.tmp, ac.dest) IN
         IF ok
           THEN /\ fs' = [fs EXCEPT ![target] =
                            File("full", ac.srcContent, now, TRUE)]
                /\ pc' = "ac_sync"
                /\ UNCHANGED <<op, ac>>
           ELSE AcError("copy", [fs EXCEPT ![target] =
                            File("partial", ac.srcContent, now, TRUE)])
    /\ UNCHANGED <<now, nOps, nCrashes, cmpVars, extVars>>

AcSync ==
    /\ pc = "ac_sync"
    /\ \E ok \in BOOLEAN :
         IF ok
           THEN /\ pc' = "ac_close"
                /\ UNCHANGED <<fs, op, ac>>
           ELSE AcError("sync", fs)
    /\ UNCHANGED <<now, nOps, nCrashes, cmpVars, extVars>>

AcClose ==
    /\ pc = "ac_close"
    /\ \E ok \in BOOLEAN :
         IF ok
           THEN /\ pc' = "ac_chmod"
                /\ UNCHANGED <<fs, op, ac>>
           ELSE AcError("close", fs)
    /\ UNCHANGED <<now, nOps, nCrashes, cmpVars, extVars>>

AcChmod ==
    /\ pc = "ac_chmod"
    /\ \E ok \in BOOLEAN :
         IF ok
           THEN /\ fs' = [fs EXCEPT ![ac.tmp].readable = fs[ac.src].readable]
                /\ pc' = "ac_rename"
                /\ UNCHANGED <<op, ac>>
           ELSE AcError("chmod", fs)
    /\ UNCHANGED <<now, nOps, nCrashes, cmpVars, extVars>>

AcRename ==
    /\ pc = "ac_rename"
    /\ \E ok \in BOOLEAN :
         IF ok
           THEN /\ fs' = [fs EXCEPT ![ac.dest] = fs[ac.tmp],
                                    ![ac.tmp] = Absent]
                /\ ac' = [ac EXCEPT !.status = "ok"]
                /\ IF ac.ret = "backup"
                     THEN IF op.kind = "backup"
                            THEN /\ op' = Returned(
                                      [op EXCEPT !.backupPath = ac.dest], "")
                                 /\ pc' = "idle"
                            ELSE /\ op' = [op EXCEPT !.backupPath = ac.dest]
                                 /\ pc' = "copy"
                     ELSE /\ op' = Returned(op, "")
                          /\ pc' = "idle"
           ELSE AcError("rename", fs)
    /\ UNCHANGED <<now, nOps, nCrashes, cmpVars, extVars>>

(***************************************************************************)
(* Backup Store                                                            *)
(***************************************************************************)
\* CreateBackup up to its call of AtomicCopy.
CreateBackup ==
    /\ pc = "backup"
    /\ op.needBackup
    /\ \E dirOk \in BOOLEAN :
         LET source == fs[op.backupSrc]
             backupPath == BackupPath(now, BaseName)
         IN
         IF ~dirOk
           THEN /\ BackupFailed(op, "failed to create history directory")
                /\ UNCHANGED ac
         ELSE IF ~FileExists(source)[1]
           THEN /\ BackupFailed(op, "source file does not exist")
                /\ UNCHANGED ac
         ELSE IF ~FileExists(source)[2]
           THEN /\ BackupFailed(op, "source file is not readable")
                /\ UNCHANGED ac
         ELSE /\ ac' = NewAc(op.backupSrc, backupPath, "backup")
              /\ pc' = "ac_open"
              /\ UNCHANGED op
    /\ UNCHANGED <<fs, now, nOps, nCrashes, cmpVars, extVars>>

\* The operation has nothing to back up.
SkipBackup ==
    /\ pc = "backup"
    /\ ~op.needBackup
    /\ pc' = "copy"
    /\ UNCHANGED <<fs, now, op, ac, nOps, nCrashes, cmpVars, extVars>>

\* The operation's call utils.AtomicCopy(src, dest).
StartCopy ==
    /\ pc = "copy"
    /\ ac' = NewAc(op.src, op.dest, "main")
    /\ op' = [op EXCEPT !.copyStarted = TRUE]
    /\ pc' = "ac_open"
    /\ UNCHANGED <<fs, now, nOps, nCrashes, cmpVars, extVars>>

\* A direct call CreateBackup(title, sourceFile).
CallCreateBackup ==
    /\ pc = "idle"
    /\ nOps < MaxOps
    /\ nOps' = nOps + 1
    /\ \E source \in {Local, Vault} :
         op' = [Begin("backup", source, NoPath) EXCEPT
                  !.backupSrc = source, !.needBackup = TRUE]
    /\ pc' = "backup"
    /\ ac' = NoAc
    /\ UNCHANGED <<fs, now, nCrashes, cmpVars, extVars>>

\* RestoreBackup(title, backupName, targetFile) up to its first call; the
\* target is the vault file, as the backup command passes it.
RestoreBackup ==
    /\ pc = "idle"
    /\ nOps < MaxOps
    /\ nOps' = nOps + 1
    /\ ac' = NoAc
    /\ \E backupPath \in HistPaths :
         LET frame == Begin("restore", backupPath, Vault) IN
         IF ~FileExists(fs[backupPath])[1]
           THEN /\ op' = Returned(frame, "backup file does not exist")
                /\ pc' = "idle"
         ELSE IF ~FileExists(fs[backupPath])[2]
           THEN /\ op' = Returned(frame, "backup file is not readable")
                /\ pc' = "idle"
         ELSE /\ op' = [frame EXCEPT
                          !.needBackup = FileExists(fs[Vault])[1]]
              /\ pc' = "backup"
    /\ UNCHANGED <<fs, now, nCrashes, cmpVars, extVars>>

\* File names are strings of bytes, written here as their ASCII codes.
\* A number below ten written with one digit.
TwoDigitsUnpadded(n) ==
    IF n < 10 THEN <<48 + n>>
    ELSE <<48 + ((n \div 10) % 10), 48 + (n % 10)>>

\* Two decimal digits, zero-padded: the fields "01", "02", "15", "04", "05" of
\* the layout.
TwoDigits(n) == <<48 + ((n \div 10) % 10), 48 + (n % 10)>>

\* time.Now().UTC().Format("2006-01-02T15-04-05Z") for the second t of the
\* day 2025-01-01.
FormatTimestamp(t) ==
    <<50, 48, 50, 53, 45, 48, 49, 45, 48, 49, 84>>
        \o TwoDigits(t \div 3600) \o <<45>>
        \o TwoDigits((t \div 60) % 60) \o <<45>>
        \o TwoDigits(t % 60) \o <<90>>

\* "score.dat"
BaseNameBytes == <<115, 99, 111, 114, 101, 46, 100, 97, 116>>

\* filepath.Base of a path of the history directory: "<timestamp>-<base>"
\* for a backup, ".tmp-<n>" for a temp file of AtomicCopy.
Name(path) ==
    CASE path[1] = "hist" ->
           FormatTimestamp(path[3]) \o <<45>> \o BaseNameBytes
      [] path[1] = "tmp" -> <<46, 116, 109, 112, 45, 48 + path[3]>>
      [] OTHER -> <<115, 117, 98>>

\* a > b on strings that are equal before byte i: byte-wise, a proper prefix
\* being the smaller.
RECURSIVE StringGreaterFrom(_, _, _)
StringGreaterFrom(a, b, i) ==
    IF i > Len(a) THEN FALSE
    ELSE IF i > Len(b) THEN TRUE
    ELSE IF a[i] # b[i] THEN a[i] > b[i]
    ELSE StringGreaterFrom(a, b, i + 1)

StringGreater(a, b) == StringGreaterFrom(a, b, 1)

\* backups[i] > backups[j], the less function of the sort.
NameGreater(a, b) == StringGreater(Name(a), Name(b))

\* sort.Slice(backups, less): the entries in the order of less, each at the
\* place that the number of entries before it gives.
SortSlice(S) ==
    LET before == [p \in S |-> Cardinality({q \in S : NameGreater(q, p)})]
    IN [i \in 1..Cardinality(S) |-> CHOOSE p \in S : before[p] = i - 1]

\* ListBackups without its error return: no entries when the history
\* directory does not exist, else the names of the entries that are not
\* directories, sorted descending.
ListBackups(f) ==
    IF ~f[HistoryDir].exists THEN <<>>
    ELSE SortSlice({p \in ReadDir(f) : f[p].kind # "dir"})

\* Limits passed to CleanupOldBackups.
MaxLimit == 2

\* The loop of CleanupOldBackups starting one entry late.
FirstRemovedOffByOne(limit) == limit + 2

\* Index, from 1, of the first entry CleanupOldBackups removes: backups[limit]
\* of the zero-based slice.
FirstRemoved(limit) == limit + 1

\* CleanupOldBackups(title, limit).  ListBackups can fail on os.ReadDir; a
\* negative limit makes the loop index the slice at limit, which panics;
\* os.Remove may fail at any entry, which ends the loop with the entries
\* before it removed.
CleanupOldBackups ==
    /\ pc = "idle"
    /\ nOps < MaxOps
    /\ nOps' = nOps + 1
    /\ ac' = NoAc
    /\ \E limit \in -1..MaxLimit, listOk \in BOOLEAN,
          backups \in {ListBackups(fs)} :
         LET frame == [Begin("cleanup", NoPath, NoPath) EXCEPT
                         !.limit = limit]
         IN
         IF ~listOk /\ fs[HistoryDir].exists
           THEN /\ op' = Returned(frame, "failed to read history directory")
                /\ fs' = fs
         ELSE IF Len(backups) <= limit
           THEN /\ op' = Returned([frame EXCEPT !.backups = backups], "")
                /\ fs' = fs
         ELSE IF limit < 0
           THEN /\ op' = [frame EXCEPT !.backups = backups,
                                       !.status = "panicked",
                                       !.err = "index out of range"]
                /\ fs' = fs
         ELSE \E last \in limit..Len(backups) :
              \E removed \in {{backups[i] : i \in FirstRemoved(limit)..last}} :
                /\ fs' = [p \in Paths |->
                            IF p \in removed THEN Absent ELSE fs[p]]
                /\ op' = Returned([frame EXCEPT !.backups = backups],
                            IF last < Len(backups)
                              THEN "failed to remove old backup" ELSE "")
    /\ pc' = "idle"
    /\ UNCHANGED <<now, nCrashes, cmpVars, extVars>>

\* A call ListBackups(title).
CallListBackups ==
    /\ pc = "idle"
    /\ nOps < MaxOps
    /\ nOps' = nOps + 1
    /\ ac' = NoAc
    /\ \E listOk \in BOOLEAN :
         LET frame == Begin("list", NoPath, NoPath) IN
         IF ~listOk /\ fs[HistoryDir].exists
           THEN op' = Returned(frame, "failed to read history directory")
           ELSE op' = Returned([frame EXCEPT !.backups = ListBackups(fs)],
                               "")
    /\ pc' = "idle"
    /\ UNCHANGED <<fs, now, nCrashes, cmpVars, extVars>>

\* strings.Split(s, "-") from byte i on, the bytes of the part being read
\* in cur.
RECURSIVE SplitFrom(_, _, _)
SplitFrom(s, i, cur) ==
    IF i > Len(s) THEN <<cur>>
    ELSE IF s[i] = 45 THEN <<cur>> \o SplitFrom(s, i + 1, <<>>)
    ELSE SplitFrom(s, i + 1, Append(cur, s[i]))

Split(s) == SplitFrom(s, 1, <<>>)

\* strings.Join(parts, "-")
RECURSIVE Join(_)
Join(parts) ==
    IF Len(parts) = 0 THEN <<>>
    ELSE IF Len(parts) = 1 THEN parts[1]
    ELSE parts[1] \o <<45>> \o Join(Tail(parts))

\* strings.Replace(s, "-", ":", n): the first n hyphens become colons.
RECURSIVE Replace(_, _)
Replace(s, n) ==
    IF Len(s) = 0 \/ n = 0 THEN s
    ELSE IF Head(s) = 45 THEN <<58>> \o Replace(Tail(s), n - 1)
    ELSE <<Head(s)>> \o Replace(Tail(s), n)

\* The value of a decimal digit, and of two of them.
IsDigit(b) == b \in 48..57
TwoDigitValue(s, i) == (s[i] - 48) * 10 + (s[i + 1] - 48)

\* info.Timestamp of an entry whose name did not parse: the zero time.Time.
ZeroTime == -1

\* time.Parse("2006-01-02T15:04:05Z", s): four digits of year, two of month
\* and day, hour, minute and second, with the literals "-", "-", "T", ":",
\* ":" and "Z" between them and nothing after; the second of the day
\* 2025-01-01 that FormatTimestamp counts, ZeroTime for an error or another
\* day.
ParseTimestamp(s) ==
    IF /\ Len(s) = 20
       /\ \A i \in {1, 2, 3, 4, 6, 7, 9, 10, 12, 13, 15, 16, 18, 19} :
            IsDigit(s[i])
       /\ s[5] = 45 /\ s[8] = 45 /\ s[11] = 84
       /\ s[14] = 58 /\ s[17] = 58 /\ s[20] = 90
       /\ SubSeq(s, 1, 10) = <<50, 48, 50, 53, 45, 48, 49, 45, 48, 49>>
       /\ TwoDigitValue(s, 12) < 24
       /\ TwoDigitValue(s, 15) < 60
       /\ TwoDigitValue(s, 18) < 60
      THEN TwoDigitValue(s, 12) * 3600 + TwoDigitValue(s, 15) * 60
             + TwoDigitValue(s, 18)
      ELSE ZeroTime

\* The Timestamp GetBackupDetails gives the entry of a name: the first six
\* hyphen-separated parts joined again, the first two hyphens turned into
\* colons, parsed; the zero time when there are fewer parts or the parse
\* fails.
BackupTimestamp(name) ==
    LET parts == Split(name) IN
    IF Len(parts) >= 6
      THEN ParseTimestamp(Replace(Join(SubSeq(parts, 1, 6)), 2))
      ELSE ZeroTime

\* BackupInfo of one entry; os.Stat of a listed entry succeeds.
BackupInfo(f, path) ==
    [Name |-> path, Timestamp |-> BackupTimestamp(Name(path)),
     Size |-> SizeOf(f[path].kind, f[path].content)]

\* A call GetBackupDetails(title).
GetBackupDetails ==
    /\ pc = "idle"
    /\ nOps < MaxOps
    /\ nOps' = nOps + 1
    /\ ac' = NoAc
    /\ \E listOk \in BOOLEAN, backups \in {ListBackups(fs)} :
         LET frame == Begin("details", NoPath, NoPath) IN
         IF ~listOk /\ fs[HistoryDir].exists
           THEN op' = Returned(frame, "failed to read history directory")
           ELSE op' = Returned(
                        [frame EXCEPT
                           !.backups = backups,
                           !.details = [i \in 1..Len(backups) |->
                                          BackupInfo(fs, backups[i])]],
                        "")
    /\ pc' = "idle"
    /\ UNCHANGED <<fs, now, nCrashes, cmpVars, extVars>>

(***************************************************************************)
(* Transfer Orchestrator                                                   *)
(***************************************************************************)
\* The destination is never backed up.
ShouldBackupNever(meta) == FALSE

\* The guard of the backup before the overwrite (vaultMeta in PullFile,
\* localMeta in PushFile).
ShouldBackup(meta) == meta.Exists /\ meta.Readable

\* PullFile also copying on CONFLICT.
PullProceedsOnConflict(rec) == rec \in {"PULL", "CONFLICT"}

\* PullFile also copying on SKIP.
PullProceedsOnSkip(rec) == rec \in {"PULL", "SKIP"}

\* PullFile goes on to the copy: comparison.Recommendation is "PULL".
PullProceeds(rec) == rec = "PULL"

\* The safety check of PushFile left out.
PushRefusedNever(safe, force) == FALSE

\* PushFile refuses to run: !safe && !force.
PushRefused(safe, force) == ~safe /\ ~force

\* PushFile stopping on PULL and CONFLICT even when forced.
PushGateIgnoresForce(rec, force) ==
    IF rec \in {"PULL", "CONFLICT"} THEN "error"
    ELSE IF rec = "SKIP" THEN "skip"
    ELSE "proceed"

\* PushFile copying on SKIP when forced.
PushGateForcedSkipCopies(rec, force) ==
    IF rec \in {"PULL", "SKIP", "CONFLICT"} /\ ~force
      THEN IF rec = "SKIP" THEN "skip" ELSE "error"
      ELSE "proceed"

\* PushFile stopping on PULL only.
PushStopsOnPullOnly(rec, force) ==
    IF rec = "PULL" /\ ~force THEN "error"
    ELSE IF rec = "SKIP" THEN "skip"
    ELSE "proceed"

\* What PushFile does with the recommendation: "error" (return the verdict
\* and an error), "skip" (return the verdict) or "proceed" (go on to copy).
PushGate(rec, force) ==
    IF rec # "PUSH"
      THEN IF rec = "PULL" /\ ~force THEN "error"
           ELSE IF rec = "SKIP" THEN "skip"
           ELSE IF rec = "CONFLICT" /\ ~force THEN "error"
           ELSE "proceed"
      ELSE "proceed"

\* The error PushFile returns with the verdict.
PushGateError(rec, reason) ==
    IF rec = "PULL" THEN "local file appears newer than vault, skipping push"
    ELSE "file conflict detected"

\* PullFile up to the backup of the vault file.  GetFileMetadata (stat, hash)
\* and EnsureDir can fail.
PullFile ==
    /\ pc = "idle"
    /\ nOps < MaxOps
    /\ nOps' = nOps + 1
    /\ ac' = NoAc
    /\ \E metaOk \in BOOLEAN, dirOk \in BOOLEAN :
         LET localMeta == GetFileMetadata(fs[Local])
             vaultMeta == GetFileMetadata(fs[Vault])
             comparison == CompareFiles(localMeta, vaultMeta)
             entry == [Begin("pull", Local, Vault) EXCEPT !.metaRead = TRUE]
             frame == [entry EXCEPT !.verdict = comparison]
         IN
         IF ~metaOk
           THEN /\ op' = Returned(entry, "failed to get metadata")
                /\ pc' = "idle"
         ELSE IF ~PullProceeds(comparison.Recommendation)
           THEN /\ op' = Returned(frame, "")
                /\ pc' = "idle"
         ELSE IF ~dirOk
           THEN /\ op' = Returned(frame, "failed to create vault directory")
                /\ pc' = "idle"
         ELSE /\ op' = [frame EXCEPT !.needBackup = ShouldBackup(vaultMeta)]
              /\ pc' = "backup"
    /\ UNCHANGED <<fs, now, nCrashes, cmpVars, extVars>>

\* The outcomes of process.CanSafelyWrite: safe, one of its two reasons, or
\* an error of the probe.
Oracle == {"safe", "process_running", "file_locked", "error"}

\* PushFile up to the backup of the local file.
PushFile ==
    /\ pc = "idle"
    /\ nOps < MaxOps
    /\ nOps' = nOps + 1
    /\ ac' = NoAc
    /\ \E oracle \in Oracle, force \in BOOLEAN, metaOk \in BOOLEAN,
          dirOk \in BOOLEAN :
         LET safe == oracle = "safe"
             vaultMeta == GetFileMetadata(fs[Vault])
             localMeta == GetFileMetadata(fs[Local])
             comparison == CompareFiles(localMeta, vaultMeta)
             entry == [Begin("push", Vault, Local) EXCEPT
                         !.force = force, !.oracle = oracle]
             frame == [entry EXCEPT !.metaRead = TRUE,
                                    !.verdict = comparison]
             gate == PushGate(comparison.Recommendation, force)
         IN
         IF oracle = "error"
           THEN /\ op' = Returned(entry, "failed to check if safe to write")
                /\ pc' = "idle"
         ELSE IF PushRefused(safe, force)
           THEN /\ op' = Returned(entry, "cannot push: " \o oracle)
                /\ pc' = "idle"
         ELSE IF ~metaOk
           THEN /\ op' = Returned([entry EXCEPT !.metaRead = TRUE],
                                  "failed to get metadata")
                /\ pc' = "idle"
         ELSE IF gate = "error"
           THEN /\ op' = Returned(frame,
                            PushGateError(comparison.Recommendation,
                                          comparison.Reason))
                /\ pc' = "idle"
         ELSE IF gate = "skip"
           THEN /\ op' = Returned(frame, "")
                /\ pc' = "idle"
         ELSE IF ~dirOk
           THEN /\ op' = Returned(frame, "failed to create local directory")
                /\ pc' = "idle"
         ELSE /\ op' = [frame EXCEPT !.needBackup = ShouldBackup(localMeta)]
              /\ pc' = "backup"
    /\ UNCHANGED <<fs, now, nCrashes, cmpVars, extVars>>

(***************************************************************************)
(* Environment                                                             *)
(***************************************************************************)
\* The game writes its save file.
EditLocal ==
    /\ pc = "idle"
    /\ nOps < MaxOps
    /\ nOps' = nOps + 1
    /\ \E c \in Contents :
         fs' = [fs EXCEPT ![Local] = File("full", c, now, TRUE)]
    /\ op' = NoOp
    /\ ac' = NoAc
    /\ UNCHANGED <<now, pc, nCrashes, cmpVars, extVars>>

\* A second passes between two operations.
Tick ==
    /\ pc = "idle"
    /\ now < MaxTime
    /\ now' = now + 1
    /\ op' = NoOp
    /\ ac' = NoAc
    /\ UNCHANGED <<fs, pc, nOps, nCrashes, cmpVars, extVars>>

\* The process dies in the middle of an operation; a crash while io.Copy
\* runs can leave a prefix of the data in the file being written.
Crash ==
    /\ pc # "idle"
    /\ nCrashes < MaxCrashes
    /\ nOps < MaxOps
    /\ nCrashes' = nCrashes + 1
    /\ nOps' = nOps + 1
    /\ pc' = "idle"
    /\ op' = [op EXCEPT !.status = "crashed"]
    /\ ac' = IF ac.status = "running" /\ pc \notin {"backup", "copy"}
               THEN [ac EXCEPT !.status = "crashed"] ELSE ac
    /\ \E partial \in BOOLEAN :
         fs' = IF partial /\ pc = "ac_copy"
                 THEN [fs EXCEPT ![CopyTarget(ac.tmp, ac.dest)] =
                         File("partial", ac.srcContent, now, TRUE)]
                 ELSE fs
    /\ UNCHANGED <<now, cmpVars, extVars>>

Next ==
    \/ PullFile
    \/ PushFile
    \/ CallCreateBackup
    \/ RestoreBackup
    \/ CleanupOldBackups
    \/ CreateBackup
    \/ SkipBackup
    \/ StartCopy
    \/ AcOpen
    \/ AcCreateTemp
    \/ AcCopy
    \/ AcSync
    \/ AcClose
    \/ AcChmod
    \/ AcRename
    \/ EditLocal
    \/ Tick
    \/ Crash

Spec == Init /\ [][Next]_vars

(***************************************************************************)
(* Comparator on arbitrary metadata                                        *)
(***************************************************************************)
InitCompare ==
    /\ cmpLocal \in FileMetadata
    /\ cmpRemote \in FileMetadata
    /\ cmpOut = NoOut
    /\ cmpForm = "none"
    /\ fs = [p \in Paths |-> Absent]
    /\ now = StartTime
    /\ pc = "idle"
    /\ op = NoOp
    /\ ac = NoAc
    /\ nOps = 0
    /\ nCrashes = 0
    /\ ExtIdle

\* The call CompareFiles(local, remote) of the evidence-combination form.
RunCompare ==
    /\ cmpOut = NoOut
    /\ cmpOut' = CompareFiles(cmpLocal, cmpRemote)
    /\ cmpForm' = "combination"
    /\ UNCHANGED <<cmpLocal, cmpRemote, fsVars, extVars>>

\* The call CompareFiles(local, remote) of the single-signal form.
RunCompareSingleSignal ==
    /\ cmpOut = NoOut
    /\ cmpOut' = CompareFilesSingleSignal(cmpLocal, cmpRemote)
    /\ cmpForm' = "single"
    /\ UNCHANGED <<cmpLocal, cmpRemote, fsVars, extVars>>

NextCompare ==
    \/ RunCompare
    \/ RunCompareSingleSignal

SpecCompare == InitCompare /\ [][NextCompare]_vars

(***************************************************************************)
(* Backup Store on an arbitrary history directory                          *)
(***************************************************************************)
\* A backup CreateBackup wrote at second t, and a temp file a crash of
\* AtomicCopy left behind.
BackupFile(t) == File("full", 1, t, TRUE)
LeftoverTmp == File("partial", 1, 0, TRUE)

\* The title's history directory is missing, or holds any backups of earlier
\* runs, leftover temp files and possibly a subdirectory.
InitBackups ==
    /\ \E dirExists \in BOOLEAN :
       \E backups \in SUBSET EarlierHistPaths :
       \E tmps \in SUBSET {TmpPath("history", i) : i \in TmpIds} :
       \E subdir \in BOOLEAN :
         /\ ~dirExists => backups = {} /\ tmps = {} /\ ~subdir
         /\ fs = [p \in Paths |->
                    IF p = Vault THEN File("full", 1, 0, TRUE)
                    ELSE IF p = HistoryDir
                      THEN IF dirExists THEN Directory ELSE Absent
                    ELSE IF p \in backups THEN BackupFile(p[3])
                    ELSE IF p \in tmps THEN LeftoverTmp
                    ELSE IF p = SubDir /\ subdir THEN Directory
                    ELSE Absent]
    /\ now = MaxTime
    /\ pc = "idle"
    /\ op = NoOp
    /\ ac = NoAc
    /\ nOps = 0
    /\ nCrashes = 0
    /\ cmpLocal = NoMeta
    /\ cmpRemote = NoMeta
    /\ cmpOut = NoOut
    /\ cmpForm = "none"
    /\ ExtIdle

NextBackups ==
    \/ CallListBackups
    \/ CleanupOldBackups
    \/ GetBackupDetails

SpecBackups == InitBackups /\ [][NextBackups]_vars

(***************************************************************************)
(* Two AtomicCopy calls running at once                                    *)
(***************************************************************************)
\* Two invocations of the tool write the vault file at the same time: a pull
\* copies the local file, a restore copies a backup of the history.
Writers == {1, 2}
RaceSource(w) == IF w = 1 THEN Local ELSE BackupPath(StartTime, BaseName)

\* The frame of writer w's call AtomicCopy(src, dest) before its first step.
NewWriter(w, f) ==
    [pc |-> "open", src |-> RaceSource(w), dest |-> Vault, tmp |-> NoPath,
     before |-> f[Vault], srcContent |-> f[RaceSource(w)].content,
     status |-> "running", failedAt |-> ""]

\* Both sources exist and can be read; the vault file is missing or complete.
InitRace ==
    /\ \E c1 \in Contents, c2 \in Contents :
       \E prior \in {Absent} \cup
                    {File("full", c, 0, TRUE) : c \in Contents} :
       \E f \in {[p \in Paths |->
                    IF p = Local THEN File("full", c1, StartTime, TRUE)
                    ELSE IF p = RaceSource(2)
                      THEN File("full", c2, StartTime, TRUE)
                    ELSE IF p = Vault THEN prior
                    ELSE IF p = HistoryDir THEN Directory
                    ELSE Absent]} :
         /\ fs = f
         /\ wr = [w \in Writers |-> NewWriter(w, f)]
    /\ now = MaxTime
    /\ pc = "idle"
    /\ op = NoOp
    /\ ac = NoAc
    /\ nOps = 0
    /\ nCrashes = 0
    /\ cmpLocal = NoMeta
    /\ cmpRemote = NoMeta
    /\ cmpOut = NoOut
    /\ cmpForm = "none"
    /\ cmd = NoCmd
    /\ log = <<>>
    /\ store = NoStore
    /\ arch = NoArch

\* Writer w's call returns an error at the given step, after its deferred
\* cleanup has run on the files f.
WriterError(w, step, f) ==
    /\ fs' = IF wr[w].tmp = NoPath THEN f
             ELSE [f EXCEPT ![wr[w].tmp] = CleanupOnError(f[wr[w].tmp])]
    /\ wr' = [wr EXCEPT ![w].pc = "done", ![w].status = "failed",
                        ![w].failedAt = step]

\* A step of writer w that touches no file.
WriterAdvance(w, from, to) ==
    /\ wr[w].pc = from
    /\ \E ok \in BOOLEAN :
         IF ok THEN /\ wr' = [wr EXCEPT ![w].pc = to]
                    /\ fs' = fs
               ELSE WriterError(w, from, fs)
    /\ UNCHANGED <<now, pc, op, ac, nOps, nCrashes, cmpVars, cmd, log,
                   store, arch>>

\* os.Open(src) and srcFile.Stat()
WriterOpen(w) ==
    /\ wr[w].pc = "open"
    /\ \E ok \in BOOLEAN :
         IF ok /\ fs[wr[w].src].exists /\ fs[wr[w].src].readable
           THEN /\ wr' = [wr EXCEPT ![w].pc = "temp"]
                /\ fs' = fs
           ELSE WriterError(w, "open", fs)
    /\ UNCHANGED <<now, pc, op, ac, nOps, nCrashes, cmpVars, cmd, log,
                   store, arch>>

\* os.CreateTemp(destDir, ".tmp-*")
WriterCreateTemp(w) ==
    /\ wr[w].pc = "temp"
    /\ \E ok \in BOOLEAN :
         IF ok
           THEN \E tmp \in {FreshTmp(Dir(wr[w].dest))} :
                /\ fs' = [fs EXCEPT ![tmp] =
                            File("empty", wr[w].srcContent, now, TRUE)]
                /\ wr' = [wr EXCEPT ![w].tmp = tmp, ![w].pc = "copy"]
           ELSE WriterError(w, "temp", fs)
    /\ UNCHANGED <<now, pc, op, ac, nOps, nCrashes, cmpVars, cmd, log,
                   store, arch>>

\* io.Copy(tmpFile, srcFile), the first part of the data written.
WriterCopyPart(w) ==
    /\ wr[w].pc = "copy"
    /\ \E ok \in BOOLEAN :
         \E f \in {[fs EXCEPT ![CopyTarget(wr[w].tmp, wr[w].dest)] =
                      File("partial", wr[w].srcContent, now, TRUE)]} :
           IF ok THEN /\ fs' = f
                      /\ wr' = [wr EXCEPT ![w].pc = "copy_rest"]
                 ELSE WriterError(w, "copy", f)
    /\ UNCHANGED <<now, pc, op, ac, nOps, nCrashes, cmpVars, cmd, log,
                   store, arch>>

\* io.Copy(tmpFile, srcFile), the rest of the data written.
WriterCopyRest(w) ==
    /\ wr[w].pc = "copy_rest"
    /\ \E ok \in BOOLEAN :
         IF ok
           THEN /\ fs' = [fs EXCEPT ![CopyTarget(wr[w].tmp, wr[w].dest)] =
                            File("full", wr[w].srcContent, now, TRUE)]
                /\ wr' = [wr EXCEPT ![w].pc = "sync"]
           ELSE WriterError(w, "copy", fs)
    /\ UNCHANGED <<now, pc, op, ac, nOps, nCrashes, cmpVars, cmd, log,
                   store, arch>>

\* tmpFile.Sync() and tmpFile.Close()
WriterSync(w) == WriterAdvance(w, "sync", "close")
WriterClose(w) == WriterAdvance(w, "close", "chmod")

\* os.Chmod(tmpPath, srcInfo.Mode())
WriterChmod(w) ==
    /\ wr[w].pc = "chmod"
    /\ \E ok \in BOOLEAN :
         IF ok
           THEN /\ fs' = [fs EXCEPT ![wr[w].tmp].readable =
                                       fs[wr[w].src].readable]
                /\ wr' = [wr EXCEPT ![w].pc = "rename"]
           ELSE WriterError(w, "chmod", fs)
    /\ UNCHANGED <<now, pc, op, ac, nOps, nCrashes, cmpVars, cmd, log,
                   store, arch>>

\* os.Rename(tmpPath, dest)
WriterRename(w) ==
    /\ wr[w].pc = "rename"
    /\ \E ok \in BOOLEAN :
         IF ok
           THEN /\ fs' = [fs EXCEPT ![wr[w].dest] = fs[wr[w].tmp],
                                    ![wr[w].tmp] = Absent]
                /\ wr' = [wr EXCEPT ![w].pc = "done", ![w].status = "ok"]
           ELSE WriterError(w, "rename", fs)
    /\ UNCHANGED <<now, pc, op, ac, nOps, nCrashes, cmpVars, cmd, log,
                   store, arch>>

NextRace ==
    \E w \in Writers :
        \/ WriterOpen(w)
        \/ WriterCreateTemp(w)
        \/ WriterCopyPart(w)
        \/ WriterCopyRest(w)
        \/ WriterSync(w)
        \/ WriterClose(w)
        \/ WriterChmod(w)
        \/ WriterRename(w)

SpecRace == InitRace /\ [][NextRace]_vars

(***************************************************************************)
(* Auxiliary archiving of replays                                          *)
(***************************************************************************)
\* Number of archiving runs over one title's directories.
MaxRuns == 2

\* The event sink: log.Info, log.Warn and log.Error append one record.
Record(level, message, title) ==
    [level |-> level, message |-> message, title |-> title]

\* The .rpy files a replay directory can hold, in the order of the listing,
\* and a file that an earlier run archived and that is gone from the replay
\* directory.
ReplayNames == {"a.rpy", "b.rpy"}
ReplayList == <<"a.rpy", "b.rpy">>
OldReplay == "old.rpy"

\* fmt.Sprintf("%s_%s", createdAt.Format("2006-01-02_15-04-05"), rpyFile):
\* the second of the modification time and the file name.
ArchiveName(createdAt, rpyFile) == <<createdAt, rpyFile>>

ArchiveNames ==
    {ArchiveName(StartTime, n) : n \in ReplayNames}
        \cup {ArchiveName(0, OldReplay)}

\* What can go wrong while one replay file is handled: hashing it, reading
\* the archive directory, os.Stat of the file, the copy.
IoOutcomes == {"ok", "hash_failed", "scan_failed", "stat_failed",
               "copy_failed"}

\* hashExistsInArchive(archiveDir, targetHash) for the replay file f of the
\* given name: false when the directory cannot be read, else whether an
\* entry that is no directory and can be hashed has the hash of f.
HashExistsInArchive(archive, f, name, readOk) ==
    /\ readOk
    /\ \E e \in ArchiveNames :
         /\ archive[e].exists
         /\ archive[e].kind # "dir"
         /\ archive[e].readable
         /\ CalculateFileHash(archive[e].kind, archive[e].content)
              = CalculateFileHash(f.kind, f.content)

\* The loop of archiveReplaysIfPresent ("replay") and of
\* archiveSnapshotsIfPresent ("snapshot") over the files still to handle;
\* acc holds the archive, the records logged, the counters and the files
\* copied, each with the archive it was copied into.
RECURSIVE ArchiveLoop(_, _, _, _, _, _, _)
ArchiveLoop(what, title, rpyFiles, replays, t, io, acc) ==
    IF rpyFiles = <<>> THEN acc
    ELSE
      LET rpyFile == Head(rpyFiles)
          f == replays[rpyFile]
          rest == Tail(rpyFiles)
          logged(level, m) ==
              [acc EXCEPT
                 !.records = Append(@, Record(level, what \o m, title))]
      IN
      IF ~f.readable \/ io[rpyFile] = "hash_failed"
        THEN ArchiveLoop(what, title, rest, replays, t, io,
                         logged("WARN", "_hash_failed"))
      ELSE IF HashExistsInArchive(acc.archive, f, rpyFile,
                                  io[rpyFile] # "scan_failed")
        THEN ArchiveLoop(what, title, rest, replays, t, io,
                         [acc EXCEPT !.skipped = @ + 1])
      ELSE IF io[rpyFile] = "stat_failed"
        THEN ArchiveLoop(what, title, rest, replays, t, io,
                         logged("WARN", "_stat_failed"))
      ELSE IF io[rpyFile] = "copy_failed"
        THEN ArchiveLoop(what, title, rest, replays, t, io,
                         logged("ERROR", "_archive_failed"))
      ELSE ArchiveLoop(what, title, rest, replays, t, io,
                       [acc EXCEPT
                          !.archive[ArchiveName(f.mtime, rpyFile)] =
                              File("full", f.content, t, f.readable),
                          !.archived = @ + 1,
                          !.copied = @ \cup {[name |-> rpyFile,
                                               before |-> acc.archive]}])

\* The body the two archiving functions share, on a source directory (found
\* or not, with its files) and an archive at time t (ok: the archive
\* directory could be made): the archive afterwards,
\* the records logged, the counters of the summary, the files copied and the
\* error returned.
ArchiveIfPresent(what, title, found, sources, archive, t, listOk, ok, io) ==
    LET start == [archive |-> archive, records |-> <<>>,
                  archived |-> 0, skipped |-> 0, copied |-> {}, err |-> ""]
        rpyFiles == SelectSeq(ReplayList, LAMBDA n : sources[n].exists)
        done == ArchiveLoop(what, title, rpyFiles, sources, t, io, start)
    IN
    IF ~found
      THEN [start EXCEPT !.records =
              <<Record("INFO", what \o "_dir_not_found", title)>>]
    ELSE IF ~listOk
      THEN [start EXCEPT !.err = "failed to list " \o what \o " files"]
    ELSE IF rpyFiles = <<>>
      THEN [start EXCEPT !.records =
              <<Record("INFO", "no_" \o what \o "_files", title)>>]
    ELSE IF ~ok
      THEN [start EXCEPT !.err =
              "failed to get " \o what \o " archive directory"]
    ELSE [done EXCEPT !.records =
            Append(@, Record("INFO", what \o "_archive_complete", title))]

\* archiveReplaysIfPresent(title, localPath, log)
ArchiveReplaysIfPresent(title, files, t, listOk, dirOk, io) ==
    ArchiveIfPresent("replay", title, files.replayDir, files.replays,
                     files.archive, t, listOk, dirOk, io)

\* archiveSnapshotsIfPresent(title, localPath, log)
ArchiveSnapshotsIfPresent(title, files, t, listOk, dirOk, io) ==
    ArchiveIfPresent("snapshot", title, files.snapshotDir, files.snapshots,
                     files.snapshotArchive, t, listOk, dirOk, io)

\* The title whose replays are archived.
ArchTitle == "th06"

\* One title's replay directory and archive, the save files left out.
ArchiveOnly(replayDir, replays, archive) ==
    [inConfig |-> TRUE, configured |-> TRUE, local |-> Absent,
     vault |-> Absent, history |-> {},
     replayDir |-> replayDir, replays |-> replays, archive |-> archive,
     snapshotDir |-> FALSE, snapshots |-> [n \in ReplayNames |-> Absent],
     snapshotArchive |-> [e \in ArchiveNames |-> Absent]]

\* The replay directory is missing or holds any replay files, one of them
\* possibly unreadable; the archive holds any files of earlier runs, possibly
\* one that cannot be read.
ReplayFiles ==
    {Absent} \cup {File("full", c, StartTime, TRUE) : c \in Contents}
        \cup {File("full", 1, StartTime, FALSE)}

ArchivedFiles ==
    {Absent} \cup {File("full", c, 0, TRUE) : c \in Contents}
        \cup {File("full", 1, 0, FALSE)}

InitArchive ==
    /\ \E replayDir \in BOOLEAN :
       \E replays \in [ReplayNames -> ReplayFiles] :
       \E archive \in [ArchiveNames -> ArchivedFiles] :
         /\ ~replayDir => \A n \in ReplayNames : replays[n] = Absent
         /\ store = [t \in {ArchTitle} |->
                       ArchiveOnly(replayDir, replays, archive)]
    /\ arch = [status |-> "none", runs |-> 0, pre |-> <<>>, clean |-> TRUE,
               cleanBefore |-> TRUE, archived |-> 0, skipped |-> 0,
               copied |-> {}, err |-> ""]
    /\ log = <<>>
    /\ wr = NoWriters
    /\ cmd = NoCmd
    /\ fs = [p \in Paths |-> Absent]
    /\ now = MaxTime
    /\ pc = "idle"
    /\ op = NoOp
    /\ ac = NoAc
    /\ nOps = 0
    /\ nCrashes = 0
    /\ cmpLocal = NoMeta
    /\ cmpRemote = NoMeta
    /\ cmpOut = NoOut
    /\ cmpForm = "none"

\* One run of archiveReplaysIfPresent; at most one file operation fails in
\* a run.
ArchiveReplays ==
    /\ arch.runs < MaxRuns
    /\ \E listOk \in BOOLEAN, dirOk \in BOOLEAN :
       \E failing \in ReplayNames, outcome \in IoOutcomes :
       \E io \in {[n \in ReplayNames |->
                     IF n = failing THEN outcome ELSE "ok"]} :
       \E r \in {ArchiveReplaysIfPresent(ArchTitle, store[ArchTitle], now,
                                         listOk, dirOk, io)} :
         /\ store' = [store EXCEPT ![ArchTitle].archive = r.archive]
         /\ log' = log \o r.records
         /\ arch' = [status |-> "returned", runs |-> arch.runs + 1,
                     pre |-> store[ArchTitle].archive,
                     clean |->
                        /\ listOk /\ dirOk /\ outcome = "ok"
                        /\ \A n \in ReplayNames :
                             store[ArchTitle].replays[n].exists
                               => store[ArchTitle].replays[n].readable
                        /\ \A e \in ArchiveNames :
                             store[ArchTitle].archive[e].exists
                               => store[ArchTitle].archive[e].readable,
                     cleanBefore |-> arch.clean /\ arch.cleanBefore,
                     archived |-> r.archived, skipped |-> r.skipped,
                     copied |-> r.copied, err |-> r.err]
    /\ UNCHANGED <<fsVars, cmpVars, wr, cmd>>

NextArchive == ArchiveReplays

SpecArchive == InitArchive /\ [][NextArchive]_vars

(***************************************************************************)
(* Batch commands: pull and push over the configured titles                *)
(***************************************************************************)
\* Title codes and the lines typed at the prompt are strings of characters.
TH095 == <<"t", "h", "0", "9", "5">>
TH10 == <<"t", "h", "1", "0">>
TH99 == <<"t", "h", "9", "9">>
All == <<"a", "l", "l">>

\* The titles of GetKnownTitles that the configuration holds here, in the
\* order of that list (th095 was released before th10).
GetKnownTitles == <<TH095, TH10>>

\* The keys paths.json can hold: known titles and a code no list knows.
Titles == {TH095, TH10, TH99}

\* The argument of the command: a title, "all" (also the default), or a
\* word that is no title code.
Targets == Titles \cup {All, <<"r", "e", "i", "m", "u">>}

\* regexp.MatchString(`^th\d+$`, code)
IsValidTitleCode(code) ==
    /\ Len(code) >= 3
    /\ code[1] = "t"
    /\ code[2] = "h"
    /\ \A i \in 3..Len(code) :
         code[i] \in {"0", "1", "2", "3", "4", "5", "6", "7", "8", "9"}

\* The exchange of sorted[i] and sorted[j] never made.
SwapNever(a, b) == FALSE

\* The condition under which SortTitlesByRelease exchanges sorted[i] = a and
\* sorted[j] = b; orderMap holds the index in GetKnownTitles of every code
\* that list knows.
Swap(a, b) ==
    LET OrderMap(code) ==
          IF \E i \in 1..Len(GetKnownTitles) : GetKnownTitles[i] = code
            THEN <<(CHOOSE i \in 1..Len(GetKnownTitles) :
                       GetKnownTitles[i] = code) - 1, TRUE>>
            ELSE <<0, FALSE>>
        orderI == OrderMap(a)[1]
        okI == OrderMap(a)[2]
        orderJ == OrderMap(b)[1]
        okJ == OrderMap(b)[2]
    IN
    \/ ~okI /\ okJ
    \/ okI /\ okJ /\ orderI > orderJ

\* The inner loop of SortTitlesByRelease from j on.
RECURSIVE SortInner(_, _, _)
SortInner(sorted, i, j) ==
    IF j > Len(sorted) THEN sorted
    ELSE SortInner(IF Swap(sorted[i], sorted[j])
                     THEN [sorted EXCEPT ![i] = sorted[j], ![j] = sorted[i]]
                     ELSE sorted,
                   i, j + 1)

\* The outer loop from i on.
RECURSIVE SortOuter(_, _)
SortOuter(sorted, i) ==
    IF i > Len(sorted) THEN sorted
    ELSE SortOuter(SortInner(sorted, i, i + 1), i + 1)

SortTitlesByRelease(titles) == SortOuter(titles, 1)

\* The orders in which `for title := range pathsConfig.Paths` can yield the
\* keys S of the map.
RangeOrders(S) ==
    {s \in [1..Cardinality(S) -> S] :
       \A i, j \in 1..Cardinality(S) : i # j => s[i] # s[j]}

\* The lines bufio.Reader.ReadString('\n') can return at the prompt.
PromptInputs ==
    {<<"l", "\n">>, <<" ", "L", "o", "c", "a", "l", "\n">>,
     <<"r", "\n">>, <<"R", "E", "M", "O", "T", "E", "\n">>,
     <<"c", "\n">>, <<"c", "a", "n", "c", "e", "l", " ", "\n">>,
     <<"x", "\n">>, <<"\n">>, <<"l">>, <<>>}

\* strings.ToLower on the letters that occur.
ToLower(s) ==
    LET LowerOf(c) ==
          CASE c = "L" -> "l" [] c = "R" -> "r" [] c = "C" -> "c"
            [] c = "E" -> "e" [] c = "M" -> "m" [] c = "O" -> "o"
            [] c = "T" -> "t" [] OTHER -> c
    IN [i \in 1..Len(s) |-> LowerOf(s[i])]

\* strings.TrimSpace
RECURSIVE TrimSpace(_)
TrimSpace(s) ==
    IF s = <<>> THEN s
    ELSE IF Head(s) \in {" ", "\n"} THEN TrimSpace(Tail(s))
    ELSE IF s[Len(s)] \in {" ", "\n"}
      THEN TrimSpace(SubSeq(s, 1, Len(s) - 1))
    ELSE s

\* The line read, or the failed read, asks for something else than the local
\* file.
Declined(input) ==
    \/ input = <<>>
    \/ input[Len(input)] # "\n"
    \/ ToLower(TrimSpace(input)) \notin {<<"l">>, <<"l", "o", "c", "a", "l">>}

\* The prompt taking anything it does not know for "local".
PromptChoiceDefaultLocal(input) ==
    IF ToLower(TrimSpace(input))
         \in {<<"r">>, <<"r", "e", "m", "o", "t", "e">>}
      THEN "remote"
      ELSE "local"

\* promptUserForConflictResolution on what ReadString('\n') returned: the
\* read gave no error exactly when the data ends in the delimiter.
PromptChoice(input) ==
    LET readOk == input # <<>> /\ input[Len(input)] = "\n"
        choice == ToLower(TrimSpace(input))
    IN
    IF ~readOk THEN "cancel"
    ELSE IF choice \in {<<"l">>, <<"l", "o", "c", "a", "l">>} THEN "local"
    ELSE IF choice \in {<<"r">>, <<"r", "e", "m", "o", "t", "e">>}
      THEN "remote"
    ELSE IF choice \in {<<"c">>, <<"c", "a", "n", "c", "e", "l">>}
      THEN "cancel"
    ELSE "cancel"

\* The backup of dest where the guard holds, then the copy of src over dest,
\* on the title's files; side is the field overwritten.  backup.CreateBackup
\* names the backup by the second t and the base name, so it replaces an
\* entry of that second.
BackupAndCopy(files, side, src, dest, t, io, comparison) ==
    LET backedUp ==
          IF ShouldBackup(GetFileMetadata(dest))
            THEN [files EXCEPT !.history =
                    {h \in @ : h.time # t}
                        \cup {[time |-> t, file |-> dest]}]
            ELSE files
        copy == File(src.kind, src.content, t, TRUE)
    IN
    IF io = "dir_failed"
      THEN [files |-> files, comparison |-> comparison,
            err |-> "failed to create directory", copied |-> FALSE]
    ELSE IF io = "backup_failed" /\ ShouldBackup(GetFileMetadata(dest))
      THEN [files |-> files, comparison |-> comparison,
            err |-> "failed to backup file", copied |-> FALSE]
    ELSE IF io = "copy_failed" \/ ~src.exists \/ ~src.readable
      THEN [files |-> backedUp, comparison |-> comparison,
            err |-> "failed to copy file", copied |-> FALSE]
    ELSE [files |-> [backedUp EXCEPT ![side] = copy],
          comparison |-> comparison, err |-> "", copied |-> TRUE]

\* sync.PullFile(title, localPath, vaultPath) as one step.
PullFileResult(files, t, io) ==
    LET localMeta == GetFileMetadata(files.local)
        vaultMeta == GetFileMetadata(files.vault)
        comparison == CompareFiles(localMeta, vaultMeta)
    IN
    IF io = "meta_failed"
      THEN [files |-> files, comparison |-> NoVerdict,
            err |-> "failed to get metadata", copied |-> FALSE]
    ELSE IF ~PullProceeds(comparison.Recommendation)
      THEN [files |-> files, comparison |-> comparison, err |-> "",
            copied |-> FALSE]
    ELSE BackupAndCopy(files, "vault", files.local, files.vault, t, io,
                       comparison)

\* sync.ForcePullFile(title, localPath, vaultPath): the pull without the
\* gate of the comparison.
ForcePullFileResult(files, t, io) ==
    LET localMeta == GetFileMetadata(files.local)
        vaultMeta == GetFileMetadata(files.vault)
        comparison == CompareFiles(localMeta, vaultMeta)
    IN
    IF io = "meta_failed"
      THEN [files |-> files, comparison |-> NoVerdict,
            err |-> "failed to get metadata", copied |-> FALSE]
    ELSE BackupAndCopy(files, "vault", files.local, files.vault, t, io,
                       comparison)

\* sync.PushFile(title, vaultPath, localPath, force) as one step.
PushFileResult(files, t, oracle, force, io) ==
    LET vaultMeta == GetFileMetadata(files.vault)
        localMeta == GetFileMetadata(files.local)
        comparison == CompareFiles(localMeta, vaultMeta)
        gate == PushGate(comparison.Recommendation, force)
        stop(c, e) == [files |-> files, comparison |-> c, err |-> e,
                       copied |-> FALSE]
    IN
    IF oracle = "error"
      THEN stop(NoVerdict, "failed to check if safe to write")
    ELSE IF PushRefused(oracle = "safe", force)
      THEN stop(NoVerdict, "cannot push: " \o oracle)
    ELSE IF io = "meta_failed"
      THEN stop(NoVerdict, "failed to get metadata")
    ELSE IF gate = "error"
      THEN stop(comparison, PushGateError(comparison.Recommendation,
                                          comparison.Reason))
    ELSE IF gate = "skip" THEN stop(comparison, "")
    ELSE BackupAndCopy(files, "local", files.vault, files.local, t, io,
                       comparison)

\* What one call of pullTitle or pushTitle leaves: the title's files, the
\* records it logged, the error it returned, the verdict it reported, the
\* choice made at the prompt and whether a save file was copied.
Outcome(files, records, err, rec, choice, copied) ==
    [files |-> files, records |-> records, err |-> err, rec |-> rec,
     choice |-> choice, copied |-> copied]

\* The two archiving calls that end pullTitle, on the files after the pull;
\* an error either returns is logged and dropped.
ArchiveBoth(title, files, t, aio) ==
    LET io == [n \in ReplayNames |->
                 IF aio = "copy_failed" /\ n = "a.rpy" THEN aio ELSE "ok"]
        r == ArchiveReplaysIfPresent(title, files, t, aio # "list_failed",
                                     TRUE, io)
        replayRecords ==
            IF r.err # ""
              THEN Append(r.records,
                          Record("ERROR", "replay_archive_error", title))
              ELSE r.records
        afterReplays == [files EXCEPT !.archive = r.archive]
        s == ArchiveSnapshotsIfPresent(title, afterReplays, t, TRUE, TRUE,
                                       [n \in ReplayNames |-> "ok"])
        snapshotRecords ==
            IF s.err # ""
              THEN Append(s.records,
                          Record("ERROR", "snapshot_archive_error", title))
              ELSE s.records
    IN
    [files |-> [afterReplays EXCEPT !.snapshotArchive = s.archive],
     records |-> replayRecords \o snapshotRecords]

\* pullTitle(title, deviceID, pathsConfig, log)
PullTitle(title, files, t, input, io, aio) ==
    LET pulled == PullFileResult(files, t, io)
        rec == pulled.comparison.Recommendation
        choice == PromptChoice(input)
        forced == ForcePullFileResult(files, t, io)
        archived == ArchiveBoth(title, pulled.files, t, aio)
    IN
    IF ~files.inConfig \/ ~files.configured
      THEN Outcome(files, <<>>, "no path configured", "none", "none", FALSE)
    ELSE IF io = "vault_failed"
      THEN Outcome(files, <<>>, "failed to get vault path", "none", "none",
                   FALSE)
    ELSE IF pulled.err # ""
      THEN Outcome(pulled.files, <<>>, pulled.err, rec, "none", FALSE)
    ELSE IF rec = "CONFLICT"
      THEN IF choice = "local"
             THEN IF forced.err # ""
                    THEN Outcome(forced.files, <<>>, "failed to force pull",
                                 rec, choice, FALSE)
                    ELSE Outcome(forced.files,
                                 <<Record("INFO", "pull", title)>>, "", rec,
                                 choice, forced.copied)
           ELSE IF choice = "remote"
             THEN Outcome(files, <<Record("INFO", "pull_skip", title)>>, "",
                          rec, choice, FALSE)
           ELSE Outcome(files, <<Record("INFO", "pull_cancel", title)>>, "",
                        rec, choice, FALSE)
    ELSE Outcome(archived.files,
                 (IF rec = "PULL" THEN <<Record("INFO", "pull", title)>>
                                  ELSE <<>>) \o archived.records,
                 "", rec, "none", pulled.copied)

\* pushTitle(title, deviceID, pathsConfig, log, force)
PushTitle(title, files, t, oracle, force, io) ==
    LET pushed == PushFileResult(files, t, oracle, force, io)
        rec == pushed.comparison.Recommendation
    IN
    IF ~files.inConfig \/ ~files.configured
      THEN Outcome(files, <<>>, "no path configured", "none", "none", FALSE)
    ELSE IF io = "vault_failed"
      THEN Outcome(files, <<>>, "failed to get vault path", "none", "none",
                   FALSE)
    ELSE IF pushed.err # ""
      THEN Outcome(pushed.files, <<>>, pushed.err, rec, "none", FALSE)
    ELSE Outcome(pushed.files,
                 IF rec = "PUSH" THEN <<Record("INFO", "push", title)>>
                                 ELSE <<>>,
                 "", rec, "none", pushed.copied)

\* The states a title can be in when a command starts.  A title's files are
\* its key in paths.json and its path for this device, the save file on
\* both sides, the history of the vault, the replay and snapshot directories
\* next to the save file and their archives.  The title is not in
\* paths.json, or has no path for this device, or has one of the pairs of
\* save files that make CompareFiles say PULL (with and without a vault
\* file), SKIP, PUSH and CONFLICT.  The title no list knows is either not in
\* paths.json or has save files on both sides that make CompareFiles say
\* PULL or CONFLICT.
TitleStates(replay) ==
    LET TitleFiles(inConfig, configured, local, vault, rpy) ==
          [inConfig |-> inConfig, configured |-> configured,
           local |-> local, vault |-> vault, history |-> {},
           replayDir |-> rpy.exists,
           replays |-> [n \in ReplayNames |->
                          IF n = "a.rpy" THEN rpy ELSE Absent],
           archive |-> [e \in ArchiveNames |-> Absent],
           snapshotDir |-> FALSE,
           snapshots |-> [n \in ReplayNames |-> Absent],
           snapshotArchive |-> [e \in ArchiveNames |-> Absent]]
        SavePairs ==
          {<<File("full", 2, StartTime, TRUE), File("full", 1, 0, TRUE)>>,
           <<File("full", 2, StartTime, TRUE), Absent>>,
           <<File("full", 1, 0, TRUE), File("full", 1, 0, TRUE)>>,
           <<File("full", 1, 0, TRUE), File("full", 2, StartTime, TRUE)>>,
           <<File("full", 2, 0, TRUE), File("full", 1, StartTime, TRUE)>>}
    IN
    {TitleFiles(FALSE, FALSE, Absent, Absent, Absent),
     TitleFiles(TRUE, FALSE, Absent, Absent, Absent)}
      \cup {TitleFiles(TRUE, TRUE, p[1], p[2], replay) : p \in SavePairs}

InitBatch ==
    /\ \E replay \in {Absent, File("full", 1, StartTime, TRUE)} :
         store \in [Titles -> TitleStates(replay)]
    /\ \/ ~store[TH99].inConfig
       \/ /\ store[TH99].configured
          /\ CompareFiles(GetFileMetadata(store[TH99].local),
                          GetFileMetadata(store[TH99].vault)).Recommendation
               \in {"PULL", "CONFLICT"}
          /\ store[TH99].vault.exists
    /\ cmd = NoCmd
    /\ log = <<>>
    /\ wr = NoWriters
    /\ arch = NoArch
    /\ fs = [p \in Paths |-> Absent]
    /\ now = MaxTime
    /\ pc = "idle"
    /\ op = NoOp
    /\ ac = NoAc
    /\ nOps = 0
    /\ nCrashes = 0
    /\ cmpLocal = NoMeta
    /\ cmpRemote = NoMeta
    /\ cmpOut = NoOut
    /\ cmpForm = "none"

\* runPull and runPush up to the loop over the titles; device.GetDeviceID,
\* logger.New and config.LoadPaths can fail.
RunCommand(kind, force) ==
    /\ cmd.status = "none"
    /\ \E target \in Targets,
          setup \in {"ok", "device_failed", "logger_failed",
                     "config_failed"} :
       \E order \in RangeOrders({t \in Titles : store[t].inConfig}) :
         LET frame == [NoCmd EXCEPT !.kind = kind, !.target = target,
                                    !.force = force]
             returned(e) == [frame EXCEPT !.status = "returned", !.err = e]
             running(titles) == [frame EXCEPT !.status = "running",
                                              !.titles = titles, !.i = 1]
         IN
         cmd' =
           IF setup # "ok" THEN returned(setup)
           ELSE IF target = All
             THEN IF order = <<>>
                    THEN returned("")
                    ELSE running(SortTitlesByRelease(order))
           ELSE IF ~IsValidTitleCode(target)
             THEN returned("invalid title code")
           ELSE running(<<target>>)
    /\ UNCHANGED <<fsVars, cmpVars, wr, log, store, arch>>

\* runPull(cmd, args)
RunPull == RunCommand("pull", FALSE)

\* runPush(cmd, args) with the flag --force
RunPush == \E pushForce \in BOOLEAN : RunCommand("push", pushForce)

\* One pass of the loop over the titles: the counters after the call r of
\* pullTitle or pushTitle (declined: the line read at the prompt asked for
\* something else than the local file), and what the pass appends to the
\* event sink.
Count(frame, title, r, declined) ==
    [frame EXCEPT !.successCount = IF r.err = "" THEN @ + 1 ELSE @,
                  !.errorCount = IF r.err # "" THEN @ + 1 ELSE @,
                  !.i = @ + 1,
                  !.done = Append(@, [title |-> title, err |-> r.err,
                                      rec |-> r.rec, choice |-> r.choice,
                                      copied |-> r.copied,
                                      logged |-> Len(r.records),
                                      declined |-> declined])]

Logged(kind, title, r) ==
    IF r.err # ""
      THEN Append(r.records, Record("ERROR", kind \o "_error", title))
      ELSE r.records

\* One pass of the loop of runPull.
PullTitleStep ==
    /\ cmd.status = "running"
    /\ cmd.kind = "pull"
    /\ cmd.i <= Len(cmd.titles)
    /\ \E input \in PromptInputs,
          io \in {"ok", "vault_failed", "meta_failed", "dir_failed",
                  "backup_failed", "copy_failed"},
          aio \in {"ok", "list_failed", "copy_failed"} :
       \E title \in {cmd.titles[cmd.i]} :
       \E r \in {PullTitle(title, store[title], now, input, io, aio)} :
         /\ store' = [store EXCEPT ![title] = r.files]
         /\ log' = log \o Logged("pull", title, r)
         /\ cmd' = Count(cmd, title, r,
                         r.rec = "CONFLICT" /\ r.choice # "none"
                           /\ Declined(input))
    /\ UNCHANGED <<fsVars, cmpVars, wr, arch>>

\* One pass of the loop of runPush.
PushTitleStep ==
    /\ cmd.status = "running"
    /\ cmd.kind = "push"
    /\ cmd.i <= Len(cmd.titles)
    /\ \E oracle \in Oracle,
          io \in {"ok", "vault_failed", "meta_failed", "dir_failed",
                  "backup_failed", "copy_failed"} :
       \E title \in {cmd.titles[cmd.i]} :
       \E r \in {PushTitle(title, store[title], now, oracle, cmd.force,
                           io)} :
         /\ store' = [store EXCEPT ![title] = r.files]
         /\ log' = log \o Logged("push", title, r)
         /\ cmd' = Count(cmd, title, r, FALSE)
    /\ UNCHANGED <<fsVars, cmpVars, wr, arch>>

\* The end of runPull and runPush: the summary is printed and the command
\* returns nil.
ReturnCommand ==
    /\ cmd.status = "running"
    /\ cmd.i > Len(cmd.titles)
    /\ cmd' = [cmd EXCEPT !.status = "returned", !.err = ""]
    /\ UNCHANGED <<fsVars, cmpVars, wr, log, store, arch>>

NextBatch ==
    \/ RunPull
    \/ RunPush
    \/ PullTitleStep
    \/ PushTitleStep
    \/ ReturnCommand

SpecBatch == InitBatch /\ [][NextBatch]_vars

(***************************************************************************)
(* Properties                                                              *)
(***************************************************************************)
\* Two files hold the same bytes, or are both absent.
SameContent(f, g) ==
    /\ f.exists = g.exists
    /\ f.kind = g.kind
    /\ f.content = g.content

\* The history holds, at the path CreateBackup returned to the running
\* operation, a complete copy of what the destination held when the operation
\* started.
BackupOfDestExists ==
    /\ op.backupPath # NoPath
    /\ fs[op.backupPath].exists
    /\ fs[op.backupPath].kind = "full"
    /\ fs[op.backupPath].content = op.pre[op.dest].content

\* C1: whenever PullFile or PushFile starts the atomic copy onto, or writes, a
\* destination that existed and was readable when the operation started, the
\* history already holds the backup of the destination's content that
\* CreateBackup made in this operation.
C1_BackupBeforeOverwrite ==
    [][(/\ op.kind \in {"pull", "push"}
        /\ op.status = "running"
        /\ op.pre[op.dest].exists
        /\ op.pre[op.dest].readable
        /\ \/ op'.copyStarted /\ ~op.copyStarted
           \/ fs'[op.dest] # fs[op.dest])
       => BackupOfDestExists]_vars

\* A pull has overwritten an existing vault file and returned.
C1_Witness ==
    /\ op.kind = "pull"
    /\ op.status = "returned"
    /\ op.err = ""
    /\ op.pre[Vault].exists
    /\ op.pre[Vault].readable
    /\ ~SameContent(fs[Vault], op.pre[Vault])
    /\ SameContent(fs[Vault], op.pre[Local])
    /\ BackupOfDestExists

\* C2: in every state during a call of AtomicCopy and in the state a failure
\* or a crash of it leaves, the destination holds what it held before the call
\* (or is still absent) or the complete content of the source.
C2_DestOldOrComplete ==
    ac.status # "none" =>
        \/ SameContent(fs[ac.dest], ac.before)
        \/ /\ fs[ac.dest].exists
           /\ fs[ac.dest].kind = "full"
           /\ fs[ac.dest].content = ac.srcContent

\* A crash in the middle of io.Copy: the temp file holds a prefix, the
\* existing destination its old content.
C2_Witness ==
    /\ ac.status = "crashed"
    /\ ac.tmp # NoPath
    /\ fs[ac.tmp].kind = "partial"
    /\ ac.before.exists
    /\ ac.before.content # ac.srcContent
    /\ SameContent(fs[ac.dest], ac.before)

\* C3: when a step of AtomicCopy fails, the call has returned an error to its
\* caller, the destination is the file it was before the call and the temp
\* file of the call is gone.
C3_FailureLeavesNoTrace ==
    ac.status = "failed" =>
        /\ fs[ac.dest] = ac.before
        /\ ac.tmp # NoPath => ~fs[ac.tmp].exists
        /\ \A p \in TmpPaths : fs[p].exists => op.pre[p].exists
        /\ ac.ret = "main" => op.status = "returned" /\ op.err # ""

\* The rename, the last step, failed on an existing destination.
C3_Witness ==
    /\ ac.status = "failed"
    /\ ac.failedAt = "rename"
    /\ ac.before.exists
    /\ ac.before.content # ac.srcContent

\* C4: a PullFile whose comparison gave SKIP, PUSH or CONFLICT has returned
\* that verdict without an error and every file is as it was.
C4_PullOtherVerdictNoChange ==
    (/\ op.kind = "pull"
     /\ op.verdict.Recommendation \in {"SKIP", "PUSH", "CONFLICT"})
    => /\ op.status = "returned"
       /\ op.err = ""
       /\ fs = op.pre

\* A pull returned CONFLICT for two existing, different files.
C4_Witness ==
    /\ op.kind = "pull"
    /\ op.status = "returned"
    /\ op.verdict.Recommendation = "CONFLICT"
    /\ fs[Local].exists
    /\ fs[Vault].exists

\* C5: a PushFile without force for which the oracle reported the path unsafe
\* has returned the error naming the oracle's reason, has read no metadata,
\* made no backup, started no copy and left every file as it was.
C5_UnsafePushDoesNothing ==
    (/\ op.kind = "push"
     /\ op.oracle \in {"process_running", "file_locked"}
     /\ ~op.force)
    => /\ op.status = "returned"
       /\ op.err = "cannot push: " \o op.oracle
       /\ ~op.metaRead
       /\ op.verdict = NoVerdict
       /\ op.backupPath = NoPath
       /\ ~op.copyStarted
       /\ fs = op.pre

\* An unforced push refused for a locked file, where the vault file would
\* otherwise have been copied over the local one.
C5_Witness ==
    /\ op.kind = "push"
    /\ op.status = "returned"
    /\ op.oracle = "file_locked"
    /\ ~op.force
    /\ CompareFiles(GetFileMetadata(fs[Local]),
                    GetFileMetadata(fs[Vault])).Recommendation = "PUSH"
    /\ fs[Local].exists

\* C6: a PushFile without force starts its copy only on the verdict PUSH; on
\* PULL or CONFLICT it has returned the verdict with the error that explains
\* it and every file is as it was.
C6_UnforcedPushOnlyOnPush ==
    (op.kind = "push" /\ ~op.force) =>
        /\ op.copyStarted => op.verdict.Recommendation = "PUSH"
        /\ fs[Local] # op.pre[Local] => op.verdict.Recommendation = "PUSH"
        /\ op.verdict.Recommendation \in {"PULL", "CONFLICT"} =>
              /\ op.status = "returned"
              /\ op.err = PushGateError(op.verdict.Recommendation,
                                        op.verdict.Reason)
              /\ fs = op.pre

\* An unforced push, safe to write, returned CONFLICT.
C6_Witness ==
    /\ op.kind = "push"
    /\ ~op.force
    /\ op.oracle = "safe"
    /\ op.status = "returned"
    /\ op.verdict.Recommendation = "CONFLICT"

\* C7: when the backup or the copy of a PullFile or PushFile has failed, the
\* operation has returned an error and the destination holds what it held
\* before; after a failed backup no copy was started.
C7_FailedStepLeavesDest ==
    (/\ op.kind \in {"pull", "push"}
     /\ \/ op.backupErr
        \/ ac.status = "failed" /\ ac.ret = "main")
    => /\ op.status = "returned"
       /\ op.err # ""
       /\ fs[op.dest] = op.pre[op.dest]
       /\ op.backupErr => ~op.copyStarted

\* A pull whose backup succeeded and whose copy failed at the rename.
C7_Witness ==
    /\ op.kind = "pull"
    /\ op.status = "returned"
    /\ op.backupPath # NoPath
    /\ ac.status = "failed"
    /\ ac.ret = "main"
    /\ ac.failedAt = "rename"

\* C8: after a successful RestoreBackup over an existing target the history
\* has one entry more, the entry CreateBackup made holds the target's
\* pre-restore content, and the target holds the content the named backup had
\* when the call started.
C8_RestoreBacksUpTarget ==
    (/\ op.kind = "restore"
     /\ op.status = "returned"
     /\ op.err = ""
     /\ op.pre[Vault].exists)
    => /\ Cardinality(HistoryOf(fs)) = Cardinality(HistoryOf(op.pre)) + 1
       /\ BackupOfDestExists
       /\ SameContent(fs[Vault], op.pre[op.src])

\* C9: in every step that is not CleanupOldBackups every history entry stays
\* as it is, and the step in which a CreateBackup completes adds one entry.
C9_HistoryAppendOnly ==
    [][/\ op'.kind # "cleanup" =>
            \A p \in HistPaths : fs[p].exists => fs'[p] = fs[p]
       /\ (ac.ret = "backup" /\ ac.status = "running" /\ ac'.status = "ok") =>
            Cardinality(HistoryOf(fs')) = Cardinality(HistoryOf(fs)) + 1]_vars

\* C10 as stated: identical Hash fields give SKIP with HashMatch, whatever
\* else the metadata holds.
C10_AnyMetadata ==
    (cmpOut # NoOut /\ cmpLocal.Hash = cmpRemote.Hash)
    => cmpOut.Recommendation = "SKIP" /\ cmpOut.HashMatch

\* C10: for two files that exist and are readable, identical hashes give SKIP
\* with HashMatch = TRUE, whatever the sizes and modification times.
C10_HashMatchSkips ==
    (/\ cmpOut # NoOut
     /\ cmpLocal.Exists /\ cmpLocal.Readable
     /\ cmpRemote.Exists /\ cmpRemote.Readable
     /\ cmpLocal.Hash = cmpRemote.Hash)
    => cmpOut.Recommendation = "SKIP" /\ cmpOut.HashMatch

\* Equal hashes with a size ratio above the threshold and a time difference
\* beyond the drift tolerance.
C10_Witness ==
    /\ cmpOut # NoOut
    /\ cmpLocal.Exists /\ cmpLocal.Readable
    /\ cmpRemote.Exists /\ cmpRemote.Readable
    /\ cmpLocal.Hash = cmpRemote.Hash
    /\ SizeRatioExceeds(cmpLocal.Size, cmpRemote.Size)
    /\ IsNewerThan(cmpRemote.ModTime, cmpLocal.ModTime)
    /\ cmpOut.HashMatch

\* CompareFiles has returned for two files that exist, are readable and have
\* different hashes.
ComparedDifferent ==
    /\ cmpOut # NoOut
    /\ cmpLocal.Exists /\ cmpLocal.Readable
    /\ cmpRemote.Exists /\ cmpRemote.Readable
    /\ cmpLocal.Hash # cmpRemote.Hash

\* The side a file's strictly larger size favours, and the side a modification
\* time more than the drift tolerance newer favours.
LargerSide ==
    IF cmpLocal.Size > cmpRemote.Size THEN "local"
    ELSE IF cmpRemote.Size > cmpLocal.Size THEN "remote" ELSE "equal"

NewerSide ==
    IF cmpLocal.ModTime - cmpRemote.ModTime > 3 THEN "local"
    ELSE IF cmpRemote.ModTime - cmpLocal.ModTime > 3 THEN "remote"
    ELSE "equal"

\* C11: for two files that exist, are readable and have different hashes, one
\* strictly larger and the other more than 3 seconds newer, CompareFiles
\* returns CONFLICT, in both orientations.
C11_OppositeSignalsConflict ==
    (/\ ComparedDifferent
     /\ \/ LargerSide = "local" /\ NewerSide = "remote"
        \/ LargerSide = "remote" /\ NewerSide = "local")
    => cmpOut.Recommendation = "CONFLICT"

\* The larger size is at most 2.0 times the smaller one (equal sizes have
\* ratio 1; a smaller size of 0 under a larger one counts as exceeding).
RatioAtMostTwo ==
    LET larger == IF cmpLocal.Size > cmpRemote.Size
                    THEN cmpLocal.Size ELSE cmpRemote.Size
        smaller == IF cmpLocal.Size > cmpRemote.Size
                     THEN cmpRemote.Size ELSE cmpLocal.Size
    IN larger = smaller \/ (smaller > 0 /\ larger <= 2 * smaller)

\* The verdict that favours a side.
VerdictFor(side) == IF side = "local" THEN "PULL" ELSE "PUSH"

\* C12: for two files that exist, are readable, have different hashes and a
\* size ratio of at most 2.0, when at least one of the size and time signals
\* favours a side and neither favours the other side, CompareFiles returns
\* that side's verdict: PULL for local, PUSH for remote.
C12_FavouredSideWins ==
    \A side \in {"local", "remote"} :
        (/\ ComparedDifferent
         /\ RatioAtMostTwo
         /\ LargerSide \in {side, "equal"}
         /\ NewerSide \in {side, "equal"}
         /\ LargerSide = side \/ NewerSide = side)
        => cmpOut.Recommendation = VerdictFor(side)

\* The combination form returned PUSH for a remote file that is larger, at a
\* ratio of exactly 2.0, with modification times within the drift tolerance.
C12_Witness ==
    /\ ComparedDifferent
    /\ cmpForm = "combination"
    /\ cmpRemote.Size = 2 * cmpLocal.Size
    /\ LargerSide = "remote"
    /\ NewerSide = "equal"
    /\ cmpOut.Recommendation = "PUSH"

\* C13: for two files that exist, are readable and have different hashes, a
\* larger size of more than 2.0 times the smaller one (any size over an empty
\* file included) gives CONFLICT whatever the modification times; at a ratio
\* of 2.0 or less a CONFLICT is never the suspicious-size one and comes only
\* with a time signal against the size signal, and a larger local file that
\* is not older beyond the tolerance gives PULL.
C13_SizeRatioThreshold ==
    ComparedDifferent =>
        /\ ~RatioAtMostTwo => cmpOut.Recommendation = "CONFLICT"
        /\ (RatioAtMostTwo /\ cmpOut.Recommendation = "CONFLICT") =>
              /\ cmpOut.Reason \notin {"local file suspiciously large",
                                       "remote file suspiciously large"}
              /\ LargerSide # "equal"
              /\ NewerSide \notin {LargerSide, "equal"}
        /\ (RatioAtMostTwo /\ LargerSide = "local" /\ NewerSide # "remote")
              => cmpOut.Recommendation = "PULL"

\* A local file three times the size of the remote one and also more than 3
\* seconds newer: CONFLICT although both signals name local.
C13_Witness ==
    /\ ComparedDifferent
    /\ cmpLocal.Size = 3 * cmpRemote.Size
    /\ cmpRemote.Size > 0
    /\ NewerSide = "local"
    /\ cmpOut.Recommendation = "CONFLICT"
    /\ cmpOut.Reason = "local file suspiciously large"

\* What C14 says of the modification times: SKIP up to 3 seconds apart, from
\* 4 seconds on PULL for a newer local file and PUSH for a newer remote one.
DriftBoundaryVerdict ==
    LET diff == cmpLocal.ModTime - cmpRemote.ModTime IN
    /\ (diff <= 3 /\ -diff <= 3) => cmpOut.Recommendation = "SKIP"
    /\ diff >= 4 => cmpOut.Recommendation = "PULL"
    /\ -diff >= 4 => cmpOut.Recommendation = "PUSH"

\* C14 as stated: any two files of equal size and different hash get the
\* verdict of their modification times.
C14_AnyFiles ==
    (/\ cmpOut # NoOut
     /\ cmpLocal.Size = cmpRemote.Size
     /\ cmpLocal.Hash # cmpRemote.Hash)
    => DriftBoundaryVerdict

\* C14: for two files that exist, are readable and have equal size and
\* different hashes, modification times 3 seconds or less apart in either
\* direction give SKIP, and 4 seconds or more apart give PULL when local is
\* newer and PUSH when remote is newer.
C14_DriftBoundary ==
    (ComparedDifferent /\ cmpLocal.Size = cmpRemote.Size)
    => DriftBoundaryVerdict

\* Equal sizes with the local file exactly 3 seconds newer: SKIP.
C14_Witness ==
    /\ ComparedDifferent
    /\ cmpLocal.Size = cmpRemote.Size
    /\ cmpLocal.ModTime - cmpRemote.ModTime = 3
    /\ cmpOut.Recommendation = "SKIP"
    /\ ~cmpOut.HashMatch

\* C15: CompareFiles decides on existence first: with the local file absent
\* and the remote one present it returns PUSH, with the local file present
\* and the remote one absent PULL, with both absent SKIP, whatever the
\* Readable, Size, ModTime and Hash fields hold.
C15_ExistenceFirst ==
    cmpOut # NoOut =>
        /\ (~cmpLocal.Exists /\ cmpRemote.Exists)
              => cmpOut.Recommendation = "PUSH"
        /\ (cmpLocal.Exists /\ ~cmpRemote.Exists)
              => cmpOut.Recommendation = "PULL"
        /\ (~cmpLocal.Exists /\ ~cmpRemote.Exists)
              => cmpOut.Recommendation = "SKIP"

\* PUSH for an absent local file although the remote file is unreadable, the
\* hash fields are equal and the local fields say larger and newer.
C15_Witness ==
    /\ cmpOut # NoOut
    /\ ~cmpLocal.Exists
    /\ cmpRemote.Exists
    /\ ~cmpRemote.Readable
    /\ cmpLocal.Hash = cmpRemote.Hash
    /\ cmpLocal.Size > cmpRemote.Size
    /\ cmpLocal.ModTime - cmpRemote.ModTime > 3
    /\ cmpOut.Recommendation = "PUSH"

\* C16: when PullFile or PushFile has compared two existing files of which at
\* least one could not be read, the verdict is SKIP, its reason names a side
\* that is unreadable, and a pull or an unforced push has returned without an
\* error and left every file as it was.
C16_UnreadableSkips ==
    (/\ op.kind \in {"pull", "push"}
     /\ op.verdict # NoVerdict
     /\ op.pre[Local].exists
     /\ op.pre[Vault].exists
     /\ ~op.pre[Local].readable \/ ~op.pre[Vault].readable)
    => /\ op.verdict.Recommendation = "SKIP"
       /\ \/ /\ op.verdict.Reason = "local file not readable"
             /\ ~op.pre[Local].readable
          \/ /\ op.verdict.Reason = "remote file not readable"
             /\ ~op.pre[Vault].readable
       /\ (op.kind = "pull" \/ ~op.force) =>
             /\ op.status = "returned"
             /\ op.err = ""
             /\ fs = op.pre

\* An unforced push, safe to write, found the vault file unreadable beside a
\* readable local file and returned SKIP.
C16_Witness ==
    /\ op.kind = "push"
    /\ ~op.force
    /\ op.oracle = "safe"
    /\ op.status = "returned"
    /\ op.pre[Local].exists /\ op.pre[Local].readable
    /\ op.pre[Vault].exists /\ ~op.pre[Vault].readable
    /\ op.verdict.Recommendation = "SKIP"
    /\ op.verdict.Reason = "remote file not readable"
    /\ fs = op.pre

\* C17: a forced PushFile whose verdict is PULL or CONFLICT is not stopped by
\* the verdict, it goes on to the backup and the copy; when it has returned
\* without an error, the history holds the backup of the local file's former
\* content, the vault file is as it was and the local file holds the vault
\* file's content.
C17_ForcedPushOverwrites ==
    (/\ op.kind = "push"
     /\ op.force
     /\ op.verdict.Recommendation \in {"PULL", "CONFLICT"})
    => /\ op.err # PushGateError(op.verdict.Recommendation,
                                 op.verdict.Reason)
       /\ op.status = "returned" =>
             \/ op.copyStarted
             \/ op.backupErr
             \/ op.err = "failed to create local directory"
       /\ (op.status = "returned" /\ op.err = "") =>
             /\ BackupOfDestExists
             /\ fs[Vault] = op.pre[Vault]
             /\ fs[Local].exists
             /\ SameContent(fs[Local], fs[Vault])

\* A forced push on CONFLICT has replaced a local file of another content.
C17_Witness ==
    /\ op.kind = "push"
    /\ op.force
    /\ op.verdict.Recommendation = "CONFLICT"
    /\ op.status = "returned"
    /\ op.err = ""
    /\ op.pre[Local].exists
    /\ ~SameContent(op.pre[Local], op.pre[Vault])
    /\ SameContent(fs[Local], fs[Vault])
    /\ BackupOfDestExists

\* C18: a PushFile whose verdict is SKIP, forced or not, has returned the
\* verdict without an error, has made no backup and started no copy, and the
\* local file, the vault file and the history are as they were.
C18_PushSkipNoChange ==
    (op.kind = "push" /\ op.verdict.Recommendation = "SKIP")
    => /\ op.status = "returned"
       /\ op.err = ""
       /\ op.backupPath = NoPath
       /\ ~op.copyStarted
       /\ fs = op.pre

\* A forced push, with the game running, on two existing files of the same
\* content written at different times.
C18_Witness ==
    /\ op.kind = "push"
    /\ op.force
    /\ op.oracle = "process_running"
    /\ op.status = "returned"
    /\ op.verdict.Recommendation = "SKIP"
    /\ op.verdict.HashMatch
    /\ fs[Local].exists
    /\ fs[Local].mtime # fs[Vault].mtime

\* The smaller of two numbers.
Min(a, b) == IF a < b THEN a ELSE b

\* The entries of a listing.
Range(seq) == {seq[i] : i \in 1..Len(seq)}

\* C19: after CleanupOldBackups(title, limit) has returned without an error,
\* the listing of the history is the first limit entries of the listing
\* before the call (all of it when it had no more than limit entries), every
\* entry kept is the file it was, every backup kept is newer than every backup
\* removed, and with limit 1 the one entry left is the head of the old
\* listing.
C19_CleanupKeepsNewest ==
    (op.kind = "cleanup" /\ op.status = "returned" /\ op.err = "")
    => \A prior \in {ListBackups(op.pre)} :
       \A kept \in {SubSeq(prior, 1, Min(op.limit, Len(prior)))} :
          /\ op.limit >= 0
          /\ ListBackups(fs) = kept
          /\ \A p \in Paths :
               p \notin Range(prior) \ Range(kept) => fs[p] = op.pre[p]
          /\ \A p \in Range(prior) \ Range(kept) : ~fs[p].exists
          /\ \A k \in HistoryOf(fs), r \in HistoryOf(op.pre) \ HistoryOf(fs) :
               k[3] > r[3]
          /\ (op.limit = 1 /\ Len(prior) >= 1) =>
               ListBackups(fs) = <<prior[1]>>

\* A cleanup with limit 1 of a history holding the backups of the seconds 9,
\* 10 and 60 has left the one of second 60.
C19_Witness ==
    /\ op.kind = "cleanup"
    /\ op.status = "returned"
    /\ op.err = ""
    /\ op.limit = 1
    /\ {BackupPath(9, BaseName), BackupPath(10, BaseName),
        BackupPath(60, BaseName)} \subseteq HistoryOf(op.pre)
    /\ HistoryOf(fs) = {BackupPath(60, BaseName)}

\* C20: a call of ListBackups for a missing history directory has returned an
\* empty list and no error; a call that returned no error has returned every
\* entry of the history directory that is not a directory, each once, with
\* the file names in strictly descending order, so that of two backups
\* written by CreateBackup the one of the later second comes first.
C20_ListNewestFirst ==
    (op.kind = "list" /\ op.status = "returned")
    => /\ ~op.pre[HistoryDir].exists =>
             op.err = "" /\ op.backups = <<>>
       /\ op.err = "" =>
             /\ Range(op.backups) =
                  {p \in Paths : /\ Dir(p) = "history"
                                 /\ op.pre[p].exists
                                 /\ op.pre[p].kind # "dir"}
             /\ \A i, j \in 1..Len(op.backups) :
                  i < j =>
                    /\ StringGreater(Name(op.backups[i]),
                                     Name(op.backups[j]))
                    /\ (op.backups[i] \in HistoryOf(op.pre)
                        /\ op.backups[j] \in HistoryOf(op.pre))
                       => op.backups[i][3] > op.backups[j][3]

\* A listing of a history with the backups of the seconds 9, 10, 59 and 60, a
\* leftover temp file and a subdirectory: the backup of second 60 first, the
\* one of second 9 behind the one of second 10, the temp file last.
C20_Witness ==
    /\ op.kind = "list"
    /\ op.status = "returned"
    /\ op.err = ""
    /\ op.pre[SubDir].exists
    /\ Len(op.backups) = 5
    /\ op.backups[1] = BackupPath(60, BaseName)
    /\ op.backups[2] = BackupPath(59, BaseName)
    /\ op.backups[3] = BackupPath(10, BaseName)
    /\ op.backups[4] = BackupPath(9, BaseName)
    /\ op.backups[5] = TmpPath("history", 1)

(***************************************************************************)
(* The two forms of CompareFiles against each other, and CompareFiles      *)
(* against itself with the arguments exchanged                             *)
(***************************************************************************)
\* The verdicts of the two forms on the metadata compared: the form that ran
\* gave cmpOut, the other form is applied to the same metadata.
CombinationVerdict ==
    IF cmpForm = "combination" THEN cmpOut.Recommendation
    ELSE CompareFiles(cmpLocal, cmpRemote).Recommendation

SingleSignalVerdict ==
    IF cmpForm = "single" THEN cmpOut.Recommendation
    ELSE CompareFilesSingleSignal(cmpLocal, cmpRemote).Recommendation

\* Size and modification time each favour a side, and not the same one.
OppositePreferences ==
    /\ SizePreference(cmpLocal, cmpRemote) \in {"local", "remote"}
    /\ TimePreference(cmpLocal, cmpRemote) \in {"local", "remote"}
    /\ SizePreference(cmpLocal, cmpRemote)
         # TimePreference(cmpLocal, cmpRemote)

\* C26: on the same pair of inputs, when the single-signal form of
\* CompareFiles returns CONFLICT the combination form returns CONFLICT too,
\* when the combination form returns a verdict other than CONFLICT the
\* single-signal form returns that verdict, and the two verdicts differ only
\* when size and modification time favour opposite sides.
C26_CombinationDominates ==
    cmpOut # NoOut =>
        /\ SingleSignalVerdict = "CONFLICT" => CombinationVerdict = "CONFLICT"
        /\ CombinationVerdict # "CONFLICT"
              => SingleSignalVerdict = CombinationVerdict
        /\ SingleSignalVerdict # CombinationVerdict => OppositePreferences

\* The combination form has returned CONFLICT where the single-signal form
\* returns PULL: local is larger within the ratio, the vault file is newer.
C26_Witness ==
    /\ cmpForm = "combination"
    /\ cmpOut.Recommendation = "CONFLICT"
    /\ CompareFilesSingleSignal(cmpLocal, cmpRemote).Recommendation = "PULL"
    /\ OppositePreferences

\* The verdict with the two sides exchanged.
Mirror(rec) ==
    IF rec = "PULL" THEN "PUSH" ELSE IF rec = "PUSH" THEN "PULL" ELSE rec

\* C28: CompareFiles(b, a) mirrors CompareFiles(a, b): PULL becomes PUSH and
\* PUSH becomes PULL, SKIP stays SKIP and CONFLICT stays CONFLICT, and
\* SizeDiff and TimeDiff change sign.
C28_Antisymmetric ==
    (cmpForm = "combination" /\ cmpOut # NoOut) =>
        \A swapped \in {CompareFiles(cmpRemote, cmpLocal)} :
            /\ swapped.Recommendation = Mirror(cmpOut.Recommendation)
            /\ swapped.SizeDiff = -cmpOut.SizeDiff
            /\ swapped.TimeDiff = -cmpOut.TimeDiff

\* PULL for a local file that is larger and newer, PUSH with the arguments
\* exchanged, the differences non-zero.
C28_Witness ==
    /\ cmpForm = "combination"
    /\ cmpOut.Recommendation = "PULL"
    /\ cmpOut.SizeDiff > 0
    /\ cmpOut.TimeDiff > TimeDriftTolerance
    /\ CompareFiles(cmpRemote, cmpLocal).Recommendation = "PUSH"

(***************************************************************************)
(* The timestamps GetBackupDetails reports                                 *)
(***************************************************************************)
\* C27: when GetBackupDetails has returned, the entry of every backup that
\* CreateBackup wrote at second t has Timestamp = t.
C27_TimestampRoundTrip ==
    (op.kind = "details" /\ op.status = "returned" /\ op.err = "") =>
        \A i \in 1..Len(op.details) :
            op.details[i].Name[1] = "hist"
                => op.details[i].Timestamp = op.details[i].Name[3]

(***************************************************************************)
(* Pull and push repeated                                                  *)
(***************************************************************************)
\* PullFile or PushFile was called as the step that followed the return of a
\* PullFile or PushFile that had copied.
RepeatedAfterCopy ==
    /\ op.kind \in {"pull", "push"}
    /\ op.after \in {"pull", "push"}

\* C29 as stated: a PullFile or PushFile that immediately follows a PullFile
\* or PushFile that copied returns SKIP with HashMatch = true and without an
\* error, and leaves every file and the history as they were.
C29_RepeatSkips ==
    RepeatedAfterCopy =>
        /\ op.status = "returned"
        /\ op.err = ""
        /\ op.verdict.Recommendation = "SKIP"
        /\ op.verdict.HashMatch
        /\ fs = op.pre

\* C29 amended: the repeated call returns at once, with every file and the
\* history as they were; when it has compared the files the verdict is SKIP
\* with HashMatch = true and there is no error, and when it has not, it
\* returns the error of the safety check or of the metadata read.
C29_RepeatChangesNothing ==
    RepeatedAfterCopy =>
        /\ op.status = "returned"
        /\ fs = op.pre
        /\ op.verdict # NoVerdict =>
              /\ op.err = ""
              /\ op.verdict.Recommendation = "SKIP"
              /\ op.verdict.HashMatch
        /\ op.verdict = NoVerdict =>
              \/ op.err = "failed to get metadata"
              \/ op.kind = "push"
                   /\ op.err = "failed to check if safe to write"
              \/ op.kind = "push" /\ ~op.force
                   /\ op.oracle \in {"process_running", "file_locked"}
                   /\ op.err = "cannot push: " \o op.oracle

\* A forced push that follows a pull which backed the vault file up and
\* overwrote it: SKIP on the hash, although the game is running.
C29_Witness ==
    /\ RepeatedAfterCopy
    /\ op.after = "pull"
    /\ op.kind = "push"
    /\ op.force
    /\ op.oracle = "process_running"
    /\ HistoryOf(fs) # {}
    /\ op.status = "returned"
    /\ op.err = ""
    /\ op.verdict.Recommendation = "SKIP"
    /\ op.verdict.HashMatch
    /\ fs = op.pre

(***************************************************************************)
(* Concurrent writers of one destination                                   *)
(***************************************************************************)
\* Writer w holds a temp file: it has created one and neither renamed nor
\* removed it.
HoldsTmp(w) == wr[w].tmp # NoPath /\ wr[w].pc # "done"

\* C30: while two AtomicCopy calls write the same destination from different
\* sources, the destination is at every moment what it was before the calls
\* or the complete content of one of the two sources; the temp files the two
\* writers hold are different files; and when both calls have returned no
\* temp file is left.
C30_ConcurrentWritersAtomic ==
    wr # NoWriters =>
        /\ \/ fs[Vault] = wr[1].before
           \/ /\ fs[Vault].kind = "full"
              /\ \E w \in Writers : fs[Vault].content = wr[w].srcContent
        /\ (HoldsTmp(1) /\ HoldsTmp(2)) => wr[1].tmp # wr[2].tmp
        /\ (\A w \in Writers : wr[w].pc = "done")
              => \A p \in TmpPaths : ~fs[p].exists

\* Both calls have returned without error, the destination holds the second
\* source, which differs from the first source and from what was there.
C30_Witness ==
    /\ wr # NoWriters
    /\ \A w \in Writers : wr[w].pc = "done" /\ wr[w].status = "ok"
    /\ fs[Vault].kind = "full"
    /\ fs[Vault].content = wr[2].srcContent
    /\ wr[1].srcContent # wr[2].srcContent
    /\ wr[1].before.exists
    /\ wr[1].before.content # wr[2].srcContent
    /\ \A p \in TmpPaths : ~fs[p].exists

(***************************************************************************)
(* Archiving at most once by content                                       *)
(***************************************************************************)
\* The archive files of dir that hold the content of the replay file f.
EntriesWithContent(dir, f) ==
    {e \in ArchiveNames :
        /\ dir[e].exists
        /\ CalculateFileHash(dir[e].kind, dir[e].content)
             = CalculateFileHash(f.kind, f.content)}

\* C24: when a run of the archiving in which no file operation failed has
\* returned, (1) every file it copied has a content that no file of the
\* archive had when it was copied, (2) no two files it copied have the same
\* content, and (3) if the run before it, on the same directories, was such
\* a run too, it has copied nothing and the archive is as it was.
C24_ArchiveOncePerContent ==
    (arch.status = "returned" /\ arch.clean) =>
        \A replays \in {store[ArchTitle].replays} :
            /\ \A c \in arch.copied :
                 EntriesWithContent(c.before, replays[c.name]) = {}
            /\ \A c \in arch.copied, d \in arch.copied :
                 c.name # d.name
                    => replays[c.name].content # replays[d.name].content
            /\ (arch.runs >= 2 /\ arch.cleanBefore) =>
                 /\ arch.archived = 0
                 /\ store[ArchTitle].archive = arch.pre

(***************************************************************************)
(* Batch commands                                                          *)
(***************************************************************************)
\* The position of a title in the release list, the titles no list knows
\* after all others.
ReleaseIndex(title) ==
    IF \E i \in 1..Len(GetKnownTitles) : GetKnownTitles[i] = title
      THEN CHOOSE i \in 1..Len(GetKnownTitles) : GetKnownTitles[i] = title
      ELSE Len(GetKnownTitles) + 1

\* The passes of the loop made so far that ended in an error.
FailedPasses == {k \in 1..Len(cmd.done) : cmd.done[k].err # ""}

\* The records on the event sink that report the failed operation of a
\* title.
ErrorRecords(title) ==
    {k \in 1..Len(log) :
       /\ log[k].level = "ERROR"
       /\ log[k].message = cmd.kind \o "_error"
       /\ log[k].title = title}

\* C21: in a pull or push over all configured titles, the titles of the loop
\* are the keys of paths.json, each once, in release order; the passes made
\* so far are the first titles in that order, one pass each, whatever errors
\* they ended in; every failed pass is counted and has one error record on
\* the event sink, every other pass counts as a success; and when the
\* command has returned every title has had its pass, so that the two
\* counts add up to the number of titles.
C21_BatchEveryTitleOnce ==
    (cmd.status \in {"running", "returned"} /\ cmd.target = All
        /\ cmd.titles # <<>>)
      => /\ Len(cmd.titles) = Cardinality({t \in Titles : store[t].inConfig})
         /\ Range(cmd.titles) = {t \in Titles : store[t].inConfig}
         /\ \A i, j \in 1..Len(cmd.titles) :
              i < j => ReleaseIndex(cmd.titles[i])
                          < ReleaseIndex(cmd.titles[j])
         /\ Len(cmd.done) = cmd.i - 1
         /\ Len(cmd.done) <= Len(cmd.titles)
         /\ \A k \in 1..Len(cmd.done) : cmd.done[k].title = cmd.titles[k]
         /\ cmd.errorCount = Cardinality(FailedPasses)
         /\ cmd.successCount = Len(cmd.done) - Cardinality(FailedPasses)
         /\ \A k \in 1..Len(cmd.done) :
              Cardinality(ErrorRecords(cmd.titles[k])) =
                  IF k \in FailedPasses THEN 1 ELSE 0
         /\ cmd.status = "returned"
              => /\ Len(cmd.done) = Len(cmd.titles)
                 /\ cmd.successCount + cmd.errorCount = Len(cmd.titles)

\* A batch over three titles has returned; the first title failed and the
\* titles after it were processed, the last one with success.
C21_Witness ==
    /\ cmd.status = "returned"
    /\ cmd.target = All
    /\ cmd.titles = <<TH095, TH10, TH99>>
    /\ cmd.done[1].err # ""
    /\ cmd.done[2].err # ""
    /\ cmd.done[3].err = ""
    /\ cmd.done[3].copied
    /\ cmd.errorCount = 2
    /\ cmd.successCount = 1

\* C22: when pull or push is invoked for a single title and that title's
\* operation fails, the command returns a non-nil error.
C22_SingleTitleErrorPropagates ==
    (cmd.status = "returned" /\ cmd.target # All /\ Len(cmd.done) = 1
        /\ cmd.done[1].err # "")
      => cmd.err # ""

\* The last pass of the loop.
LastPass(frame) == frame.done[Len(frame.done)]

\* A pass of the loop of a pull has just ended in which the comparison said
\* CONFLICT and the answer at the prompt was not "local".
DeclinedConflictPass ==
    /\ cmd.kind = "pull"
    /\ Len(cmd'.done) = Len(cmd.done) + 1
    /\ LastPass(cmd').rec = "CONFLICT"
    /\ LastPass(cmd').declined

\* C23: when a pull reports CONFLICT and the answer at the prompt is
\* "remote" or "cancel" - or anything the prompt does not know, or a failed
\* read - the pass leaves the title's local file, vault file and history as
\* they were and ends without error: it is counted as a success, nothing is
\* counted as an error, and the loop goes on to the next title; a command
\* that has returned has made a pass for every title.
C23_DeclinedConflictChangesNothing ==
    /\ [][DeclinedConflictPass =>
            /\ store'[LastPass(cmd').title].local
                 = store[LastPass(cmd').title].local
            /\ store'[LastPass(cmd').title].vault
                 = store[LastPass(cmd').title].vault
            /\ store'[LastPass(cmd').title].history
                 = store[LastPass(cmd').title].history
            /\ \A t \in Titles : store'[t] = store[t]
            /\ LastPass(cmd').err = ""
            /\ LastPass(cmd').choice \in {"remote", "cancel"}
            /\ cmd'.errorCount = cmd.errorCount
            /\ cmd'.successCount = cmd.successCount + 1
            /\ cmd'.status = "running"
            /\ cmd'.i = cmd.i + 1]_vars
    /\ [](cmd.status = "returned" /\ cmd.titles # <<>>
            => Len(cmd.done) = Len(cmd.titles))

\* A batch pull has returned in which the first title was in conflict and
\* the answer was not "local", and the title after it was pulled.
C23_Witness ==
    /\ cmd.status = "returned"
    /\ cmd.kind = "pull"
    /\ Len(cmd.done) >= 2
    /\ cmd.done[1].rec = "CONFLICT"
    /\ cmd.done[1].declined
    /\ cmd.done[1].choice = "cancel"
    /\ cmd.done[2].rec = "PULL"
    /\ cmd.done[2].copied

\* C25: every pass of the loop of a pull or push - whether it copied,
\* skipped, failed or archived - has put at least one record for its title
\* on the event sink by the time it ends, that is before the next title
\* starts.
C25_EveryOutcomeLogged ==
    \A k \in 1..Len(cmd.done) :
      \E n \in 1..Len(log) : log[n].title = cmd.done[k].title

====
